---- MODULE Spec2Model ----
(***************************************************************************)
(* Cloudsweeper: the cleanup controller (MarkForCleanup, PerformCleanup,   *)
(* ResetCloudsweeper) over a fleet of tagged cloud resources, and the      *)
(* concurrent account/region/kind inventory fan-out of the AWS resource    *)
(* manager.                                                                *)
(*                                                                         *)
(* Time is counted in whole days.  A time-valued tag holds a day number,   *)
(* every other tag holds 0.  Money is counted in whole currency units.     *)
(***************************************************************************)
EXTENDS Integers, Sequences, FiniteSets, TLC

(***************************************************************************)
(* Program constants                                                       *)
(***************************************************************************)
totalCostThreshold == 10

GeneralHorizonDays == 4

UnnamedHorizonDays == 1

DeleteTagKey == "cloudsweeper-delete-at"

LifetimeTagKey == "cloudsweeper-lifetime"

ExpiryTagKey == "cloudsweeper-expiry"

NameTagKey == "Name"

(***************************************************************************)
(* Bounds of the model                                                     *)
(***************************************************************************)
MaxNow == 3

MaxRuns == 2

(* The thresholds map handed to MarkForCleanup (an input of the pass).     *)
Thresholds ==
  [k \in {"clean-untagged-older-than-days", "clean-instances-older-than-days",
          "clean-images-older-than-days", "clean-snapshots-older-than-days",
          "clean-unattached-older-than-days", "clean-bucket-not-modified-days",
          "clean-bucket-older-than-days", "clean-keep-n-component-images"} |->
     CASE k = "clean-untagged-older-than-days" -> 2
       [] k = "clean-instances-older-than-days" -> 4
       [] k = "clean-images-older-than-days" -> 4
       [] k = "clean-snapshots-older-than-days" -> 4
       [] k = "clean-unattached-older-than-days" -> 2
       [] k = "clean-bucket-not-modified-days" -> 4
       [] k = "clean-bucket-older-than-days" -> 1
       [] OTHER -> 2]

Accounts == {"A", "B"}

(* The fleet: ids in listing order, with the kind and owner of each.       *)
IdOrder == <<"i1", "i2", "m1", "i3", "v1", "s1", "b1">>

Ids == {IdOrder[n] : n \in DOMAIN IdOrder}

KindOf(id) ==
  CASE id \in {"i1", "i2", "i3"} -> "instance"
    [] id = "v1" -> "volume"
    [] id \in {"m1", "m2", "m3", "m4"} -> "image"
    [] id = "s1" -> "snapshot"
    [] OTHER -> "bucket"

OwnerOf(id) == IF id \in {"i1", "i2", "m1", "s1"} THEN "A" ELSE "B"

NoTags == [k \in {} |-> 0]

TagMap(keys, val) == [k \in keys |-> val]

(* The attribute sets a resource of the fleet is drawn from.               *)
Profile(created, cost, tagmap) ==
  [created |-> created, cost |-> cost, tags |-> tagmap,
   attached |-> FALSE, inUse |-> FALSE, follows |-> FALSE,
   component |-> "", stamp |-> 0, lastModified |-> created]

Profiles(id) ==
  CASE id = "i1" -> {Profile(-3, 1, NoTags),
                     Profile(-3, 1, TagMap({LifetimeTagKey}, 4))}
    [] id = "i2" -> {Profile(-5, 0, TagMap({NameTagKey}, 0)),
                     Profile(-2, 1, TagMap({ExpiryTagKey}, 2))}
    [] id = "m1" -> {Profile(-4, 1, NoTags)}
    [] id = "i3" -> {Profile(-2, 1, NoTags),
                     Profile(-5, 2, TagMap({NameTagKey}, 0))}
    [] id = "v1" -> {Profile(-2, 1, NoTags)}
    [] id = "s1" -> {Profile(-4, 1, TagMap({DeleteTagKey}, 2))}
    [] OTHER -> {Profile(0, 3, TagMap({"team"}, 0))}

VARIABLES
  now,        \* the current day (time.Now())
  fleet,      \* id -> the provider-side attributes of the resource
  tags,       \* id -> the provider-side tag map of the resource
  alive,      \* the ids that have not been deleted
  lastOp,     \* the controller operation that ran last
  dryRunFlag, \* the dryRun argument of the last MarkForCleanup
  markLog,    \* account -> the locals of the last MarkForCleanup iteration
  setTagCalls,    \* account -> the SetTag calls of the last pass, in order
  removeTagCalls, \* account -> the RemoveTag calls of the last pass, in order
  cleanupCalls,   \* account -> the Cleanup() calls of the last pass, in order
  prevTags,   \* the tag maps when the last pass took its inventory
  runs        \* the number of controller passes so far

VARIABLES
  fanPc,      \* the goroutine that called AllResourcesPerAccount
  fanExit,    \* why the process ended inside the call, "" while it lives
  denied,     \* the accounts whose role denies every listing call
  acctPc,     \* account -> its forEachAccount goroutine
  regionPc,   \* account -> region -> its forEachAWSRegion goroutine
  kindPc,     \* account -> region -> kind -> its listing goroutine
  base,       \* account -> region -> kind -> the slice read for append
  resultMap,  \* account -> kind -> the list of the ResourceCollection
  ran         \* account -> "account" or region -> calls of the funcToRun of that task

VARIABLES
  cuResources, \* the list handed to cleanupResources
  cuPc,        \* the goroutine that called cleanupResources
  cuTask,      \* index -> the Cleanup() goroutine of that element
  cuCalls,     \* index -> the number of Cleanup() calls on that element
  cuFailed,    \* the local variable failed of cleanupResources
  cuResult     \* what cleanupResources returned

VARIABLES
  unitIn,      \* the input of the function under study
  unitLog      \* the calls of the function under study, in order

ctlVars == <<now, fleet, tags, alive, lastOp, dryRunFlag, markLog, setTagCalls,
             removeTagCalls, cleanupCalls, prevTags, runs>>

fanVars == <<fanPc, fanExit, denied, acctPc, regionPc, kindPc, base, resultMap,
             ran>>

cuVars == <<cuResources, cuPc, cuTask, cuCalls, cuFailed, cuResult>>

unitVars == <<unitIn, unitLog>>

vars == <<ctlVars, fanVars, cuVars, unitVars>>

(* What a step of the controller, of the fan-out, of cleanupResources and  *)
(* of a single function leaves alone.                                      *)
notCtl == <<fanVars, cuVars, unitVars>>

notFan == <<ctlVars, cuVars, unitVars>>

notCu == <<ctlVars, fanVars, unitVars>>

notUnit == <<fanVars, cuVars>>


(***************************************************************************)
(* Resource model: what a listing call yields for a live resource.         *)
(***************************************************************************)
Res(id) ==
  [id |-> id, kind |-> KindOf(id), owner |-> OwnerOf(id),
   created |-> fleet[id].created, cost |-> fleet[id].cost,
   attached |-> fleet[id].attached, inUse |-> fleet[id].inUse,
   follows |-> fleet[id].follows, component |-> fleet[id].component,
   stamp |-> fleet[id].stamp, lastModified |-> fleet[id].lastModified,
   tags |-> tags[id]]

(* The per-kind list of one account's inventory, rebuilt on every call.    *)
Inventory(owner, kind) ==
  SelectSeq(IdOrder, LAMBDA id : id \in alive /\ OwnerOf(id) = owner
                                 /\ KindOf(id) = kind)

ResourceCostPerDay(r) == r.cost

BucketPricePerMonth(r) == r.cost

(***************************************************************************)
(* Filter engine: rules, filters and the application of filters to a list. *)
(***************************************************************************)
Rule(name, n, key) == [name |-> name, n |-> n, key |-> key, neg |-> FALSE]

OlderThanXDays(n) == Rule("OlderThanXDays", n, "")

NotModifiedInXDays(n) == Rule("NotModifiedInXDays", n, "")

HasTag(key) == Rule("HasTag", 0, key)

IsUntaggedWithException(key) == Rule("IsUntaggedWithException", 0, key)

(* Mutant: the rule looks for the lifetime tag.                             *)
TaggedForCleanup_Lifetime == Rule("HasTag", 0, LifetimeTagKey)

TaggedForCleanup == Rule("HasTag", 0, DeleteTagKey)

IsUnattached == Rule("IsUnattached", 0, "")

IsNotInUse == Rule("IsNotInUse", 0, "")

LifetimeExceeded == Rule("LifetimeExceeded", 0, "")

ExpiryDatePassed == Rule("ExpiryDatePassed", 0, "")

DeleteAtPassed == Rule("DeleteAtPassed", 0, "")

DoesNotFollowFormat == Rule("DoesNotFollowFormat", 0, "")

FollowsFormat == Rule("FollowsFormat", 0, "")

Negate(rule) == [rule EXCEPT !.neg = ~@]

RuleHolds(rule, r) ==
  CASE rule.name = "OlderThanXDays" -> now - r.created >= rule.n
    [] rule.name = "NotModifiedInXDays" -> now - r.lastModified >= rule.n
    [] rule.name = "HasTag" -> rule.key \in DOMAIN r.tags
    [] rule.name = "IsUntaggedWithException" -> DOMAIN r.tags \subseteq {rule.key}
    [] rule.name = "IsUnattached" -> ~r.attached
    [] rule.name = "IsNotInUse" -> ~r.inUse
    [] rule.name = "LifetimeExceeded" ->
         /\ LifetimeTagKey \in DOMAIN r.tags
         /\ now - r.created >= r.tags[LifetimeTagKey]
    [] rule.name = "ExpiryDatePassed" ->
         /\ ExpiryTagKey \in DOMAIN r.tags
         /\ now >= r.tags[ExpiryTagKey]
    [] rule.name = "DeleteAtPassed" ->
         /\ DeleteTagKey \in DOMAIN r.tags
         /\ now >= r.tags[DeleteTagKey]
    [] rule.name = "DoesNotFollowFormat" -> ~r.follows
    [] OTHER -> r.follows

RuleAccepts(rule, r) == RuleHolds(rule, r) # rule.neg

New ==
  [general |-> <<>>, instance |-> <<>>, image |-> <<>>, volume |-> <<>>,
   snapshot |-> <<>>, bucket |-> <<>>]

AddGeneralRule(f, rule) == [f EXCEPT !.general = Append(@, rule)]

AddInstanceRule(f, rule) == [f EXCEPT !.instance = Append(@, rule)]

AddImageRule(f, rule) == [f EXCEPT !.image = Append(@, rule)]

AddVolumeRule(f, rule) == [f EXCEPT !.volume = Append(@, rule)]

AddSnapshotRule(f, rule) == [f EXCEPT !.snapshot = Append(@, rule)]

AddBucketRule(f, rule) == [f EXCEPT !.bucket = Append(@, rule)]

(* A filter includes a resource iff every general rule and every rule of   *)
(* the slot of the resource's kind accepts it.                             *)
Includes(f, r) ==
  /\ \A n \in DOMAIN f.general : RuleAccepts(f.general[n], r)
  /\ \A n \in DOMAIN f[r.kind] : RuleAccepts(f[r.kind][n], r)

IncludedByAll(filters, r) == \A n \in DOMAIN filters : Includes(filters[n], r)

(* One of the filters of the call includes the resource.                   *)
IncludedByAny(filters, r) == \E n \in DOMAIN filters : Includes(filters[n], r)

(* filter.Instances / Images / Volumes / Snapshots / Buckets: one pass     *)
(* over the list, keeping each resource that the filters of the call let   *)
(* through.                                                                *)
RECURSIVE FilterResources(_, _)
FilterResources(list, filters) ==
  IF list = <<>> THEN <<>>
  ELSE (IF IncludedByAny(filters, Res(Head(list))) THEN <<Head(list)>> ELSE <<>>)
         \o FilterResources(Tail(list), filters)


(***************************************************************************)
(* MarkForCleanup: the policies of one account's iteration.                *)
(***************************************************************************)
getThreshold(key, thresholds) ==
  IF key \in DOMAIN thresholds THEN thresholds[key] ELSE 99999

untaggedFilter ==
  AddVolumeRule(
    AddGeneralRule(
      AddSnapshotRule(
        AddGeneralRule(
          AddGeneralRule(New, IsUntaggedWithException(NameTagKey)),
          OlderThanXDays(getThreshold("clean-untagged-older-than-days", Thresholds))),
        IsNotInUse),
      Negate(TaggedForCleanup)),
    IsUnattached)

instanceFilter ==
  AddGeneralRule(
    AddGeneralRule(New,
      OlderThanXDays(getThreshold("clean-instances-older-than-days", Thresholds))),
    Negate(TaggedForCleanup))

noNameFilter ==
  AddGeneralRule(
    AddGeneralRule(
      AddGeneralRule(
        AddGeneralRule(New,
          OlderThanXDays(getThreshold("clean-untagged-older-than-days", Thresholds))),
        IsUntaggedWithException(NameTagKey)),
      Negate(HasTag(NameTagKey))),
    Negate(TaggedForCleanup))

volumeFilter ==
  AddGeneralRule(
    AddGeneralRule(
      AddVolumeRule(New, IsUnattached),
      OlderThanXDays(getThreshold("clean-unattached-older-than-days", Thresholds))),
    Negate(TaggedForCleanup))

snapshotFilter ==
  AddGeneralRule(
    AddSnapshotRule(
      AddGeneralRule(New,
        OlderThanXDays(getThreshold("clean-snapshots-older-than-days", Thresholds))),
      IsNotInUse),
    Negate(TaggedForCleanup))

bucketFilter ==
  AddGeneralRule(
    AddGeneralRule(
      AddBucketRule(New,
        NotModifiedInXDays(getThreshold("clean-bucket-not-modified-days", Thresholds))),
      OlderThanXDays(getThreshold("clean-bucket-older-than-days", Thresholds))),
    Negate(TaggedForCleanup))

unformattedImageFilter ==
  AddImageRule(
    AddGeneralRule(
      AddGeneralRule(New,
        OlderThanXDays(getThreshold("clean-images-older-than-days", Thresholds))),
      Negate(TaggedForCleanup)),
    DoesNotFollowFormat)

formattedImageFilter ==
  AddImageRule(AddGeneralRule(New, Negate(TaggedForCleanup)), FollowsFormat)

(* filter.ParseFormat: the component name and the date of an image name.   *)
ParseFormat(id) ==
  IF fleet[id].follows THEN <<fleet[id].component, fleet[id].stamp>>
  ELSE <<"", 0>>

(* sort.Slice with times[i].After(times[j]): newest first.                 *)
RECURSIVE InsertDesc(_, _)
InsertDesc(t, sorted) ==
  IF sorted = <<>> THEN <<t>>
  ELSE IF t >= Head(sorted) THEN <<t>> \o sorted
  ELSE <<Head(sorted)>> \o InsertDesc(t, Tail(sorted))

RECURSIVE SortDesc(_)
SortDesc(times) ==
  IF times = <<>> THEN <<>> ELSE InsertDesc(Head(times), SortDesc(Tail(times)))

(* Mutant: one list of dates for the images of all components.            *)
componentDates_AllComponents(images, componentName) ==
  [n \in DOMAIN images |-> ParseFormat(images[n])[2]]

componentDates(images, componentName) ==
  LET mine == SelectSeq(images, LAMBDA id : ParseFormat(id)[1] = componentName)
  IN [n \in DOMAIN mine |-> ParseFormat(mine[n])[2]]

(* Mutant: the threshold is always the newest date of the component.       *)
findThreshold_Newest(images, componentName, componentsToKeep) ==
  SortDesc(componentDates(images, componentName))[1]

findThreshold(images, componentName, componentsToKeep) ==
  LET times == SortDesc(componentDates(images, componentName))
      minimumIndex == IF componentsToKeep > Len(times) THEN Len(times)
                      ELSE componentsToKeep
  IN times[minimumIndex]

(* Mutant: an image dated at the threshold is returned as well.            *)
getAllButNLatestComponents_AtOrBefore(images, componentsToKeep) ==
  SelectSeq(images, LAMBDA id :
    ParseFormat(id)[2] <= findThreshold(images, ParseFormat(id)[1], componentsToKeep))

getAllButNLatestComponents(images, componentsToKeep) ==
  SelectSeq(images, LAMBDA id :
    ParseFormat(id)[2] < findThreshold(images, ParseFormat(id)[1], componentsToKeep))

(* The ids of a list that an earlier loop of the pass has not selected.    *)
RECURSIVE NotAlready(_, _)
NotAlready(list, alreadySelected) ==
  IF list = <<>> THEN <<>>
  ELSE IF Head(list) \in alreadySelected
       THEN NotAlready(Tail(list), alreadySelected)
       ELSE <<Head(list)>> \o NotAlready(Tail(list), alreadySelected \cup {Head(list)})

SeqIds(list) == {list[n] : n \in DOMAIN list}

RECURSIVE SumCost(_)
SumCost(list) ==
  IF list = <<>> THEN 0
  ELSE (IF KindOf(Head(list)) = "bucket"
        THEN BucketPricePerMonth(Res(Head(list)))
        ELSE (now - Res(Head(list)).created) * ResourceCostPerDay(Res(Head(list))))
       + SumCost(Tail(list))

(* The instance loop of the no-name policy (cleanup.go, first loop).       *)
unnamedInstances(owner) ==
  FilterResources(Inventory(owner, "instance"), <<noNameFilter>>)

(* Mutant: the general instance loop handed only instanceFilter.            *)
generalInstances_OnlyInstanceFilter(owner) ==
  FilterResources(Inventory(owner, "instance"), <<instanceFilter>>)

(* The instance loop of the general policy.                                *)
generalInstances(owner) ==
  FilterResources(Inventory(owner, "instance"), <<instanceFilter, untaggedFilter>>)

selectedVolumes(owner) ==
  FilterResources(Inventory(owner, "volume"), <<volumeFilter, untaggedFilter>>)

selectedSnapshots(owner) ==
  FilterResources(Inventory(owner, "snapshot"), <<snapshotFilter, untaggedFilter>>)

selectedBuckets(owner) ==
  FilterResources(Inventory(owner, "bucket"), <<bucketFilter, untaggedFilter>>)

(* The three image loops, the later ones guarded by alreadySelectedImages. *)
selectedImages(owner) ==
  LET images == Inventory(owner, "image")
      untagged == FilterResources(images, <<untaggedFilter>>)
      unformatted ==
        NotAlready(FilterResources(images, <<unformattedImageFilter>>),
                   SeqIds(untagged))
      formattedImages ==
        getAllButNLatestComponents(images,
          getThreshold("clean-keep-n-component-images", Thresholds))
      formatted ==
        NotAlready(FilterResources(formattedImages, <<formattedImageFilter>>),
                   SeqIds(untagged) \cup SeqIds(unformatted))
  IN untagged \o unformatted \o formatted

(* Mutant: totalCost is not reset per account, it sums over all accounts.  *)
MarkAccount_SharedTotal(owner) ==
  LET tagListUnnamedInstances == unnamedInstances(owner)
      tagListGeneral == generalInstances(owner) \o selectedVolumes(owner)
                          \o selectedSnapshots(owner) \o selectedBuckets(owner)
                          \o selectedImages(owner)
      lists == [a \in Accounts |->
                  unnamedInstances(a) \o generalInstances(a) \o selectedVolumes(a)
                    \o selectedSnapshots(a) \o selectedBuckets(a)
                    \o selectedImages(a)]
      all == lists["A"] \o lists["B"]
  IN [tagListGeneral |-> tagListGeneral,
      tagListUnnamedInstances |-> tagListUnnamedInstances,
      totalCost |-> SumCost(all),
      resourcesToTag |->
        [Instances |-> unnamedInstances(owner) \o generalInstances(owner),
         Volumes |-> selectedVolumes(owner),
         Snapshots |-> selectedSnapshots(owner),
         Buckets |-> selectedBuckets(owner),
         Images |-> selectedImages(owner)]]

(* Mutant: the returned collection lists only what the cost gate lets      *)
(* through.                                                                *)
MarkAccount_ReturnsTagged(owner) ==
  LET tagListUnnamedInstances == unnamedInstances(owner)
      tagListGeneral == generalInstances(owner) \o selectedVolumes(owner)
                          \o selectedSnapshots(owner) \o selectedBuckets(owner)
                          \o selectedImages(owner)
      totalCost == SumCost(tagListUnnamedInstances) + SumCost(tagListGeneral)
  IN [tagListGeneral |-> tagListGeneral,
      tagListUnnamedInstances |-> tagListUnnamedInstances,
      totalCost |-> totalCost,
      resourcesToTag |->
        IF totalCost < totalCostThreshold
          THEN [Instances |-> <<>>, Volumes |-> <<>>, Snapshots |-> <<>>,
                Buckets |-> <<>>, Images |-> <<>>]
          ELSE [Instances |-> unnamedInstances(owner) \o generalInstances(owner),
                Volumes |-> selectedVolumes(owner),
                Snapshots |-> selectedSnapshots(owner),
                Buckets |-> selectedBuckets(owner),
                Images |-> selectedImages(owner)]]

(* The locals of one iteration of the account loop when it reaches the     *)
(* applyTags calls.                                                        *)
MarkAccount(owner) ==
  LET tagListUnnamedInstances == unnamedInstances(owner)
      tagListGeneral == generalInstances(owner) \o selectedVolumes(owner)
                          \o selectedSnapshots(owner) \o selectedBuckets(owner)
                          \o selectedImages(owner)
  IN [tagListGeneral |-> tagListGeneral,
      tagListUnnamedInstances |-> tagListUnnamedInstances,
      totalCost |-> SumCost(tagListUnnamedInstances) + SumCost(tagListGeneral),
      resourcesToTag |->
        [Instances |-> unnamedInstances(owner) \o generalInstances(owner),
         Volumes |-> selectedVolumes(owner),
         Snapshots |-> selectedSnapshots(owner),
         Buckets |-> selectedBuckets(owner),
         Images |-> selectedImages(owner)]]

(* Mutant: applyTags without the dry-run branch.                           *)
applyTags_NoDryRunBranch(resources, timeToDelete, totalCost, dryRun) ==
  IF totalCost < totalCostThreshold THEN <<>>
  ELSE [n \in DOMAIN resources |->
          [id |-> resources[n], key |-> DeleteTagKey, value |-> timeToDelete,
           overwrite |-> TRUE]]

(* Mutant: applyTags with the boundary on the wrong side of the gate.      *)
applyTags_GateExcludesBoundary(resources, timeToDelete, totalCost, dryRun) ==
  IF dryRun THEN <<>>
  ELSE IF totalCost <= totalCostThreshold THEN <<>>
  ELSE [n \in DOMAIN resources |->
          [id |-> resources[n], key |-> DeleteTagKey, value |-> timeToDelete,
           overwrite |-> TRUE]]

(* Mutant: applyTags writes the expiry marker.                             *)
applyTags_ExpiryKey(resources, timeToDelete, totalCost, dryRun) ==
  IF dryRun THEN <<>>
  ELSE IF totalCost < totalCostThreshold THEN <<>>
  ELSE [n \in DOMAIN resources |->
          [id |-> resources[n], key |-> ExpiryTagKey, value |-> timeToDelete,
           overwrite |-> TRUE]]

(* applyTags: the SetTag calls it issues for one list.                     *)
applyTags(resources, timeToDelete, totalCost, dryRun) ==
  IF dryRun THEN <<>>
  ELSE IF totalCost < totalCostThreshold THEN <<>>
  ELSE [n \in DOMAIN resources |->
          [id |-> resources[n], key |-> DeleteTagKey, value |-> timeToDelete,
           overwrite |-> TRUE]]

(* addAWSTag: the outcome of one SetTag call on a resource object whose    *)
(* tag map was read at listing time; failing is the set of ids whose       *)
(* CreateTags call the provider rejects.                                   *)
addAWSTag(call, cached, failing) ==
  IF call.key \in DOMAIN cached[call.id] /\ ~call.overwrite THEN "AlreadyTagged"
  ELSE IF call.id \in failing THEN "ProviderError"
  ELSE "ok"

(* Mutant: the first SetTag that fails ends the pass.                      *)
RECURSIVE TagsAfter_StopsAtFailure(_, _, _, _)
TagsAfter_StopsAtFailure(calls, cached, failing, remote) ==
  IF calls = <<>> THEN remote
  ELSE LET c == Head(calls)
       IN IF addAWSTag(c, cached, failing) # "ok" THEN remote
          ELSE TagsAfter_StopsAtFailure(Tail(calls), cached, failing,
                 [remote EXCEPT ![c.id] =
                    [k \in DOMAIN @ \cup {c.key} |->
                       IF k = c.key THEN c.value ELSE @[k]]])

(* The provider-side tag maps after a sequence of SetTag calls.            *)
RECURSIVE TagsAfter(_, _, _, _)
TagsAfter(calls, cached, failing, remote) ==
  IF calls = <<>> THEN remote
  ELSE LET c == Head(calls)
           next == IF addAWSTag(c, cached, failing) = "ok"
                   THEN [remote EXCEPT ![c.id] =
                           [k \in DOMAIN @ \cup {c.key} |->
                              IF k = c.key THEN c.value ELSE @[k]]]
                   ELSE remote
       IN TagsAfter(Tail(calls), cached, failing, next)

(* Mutant: the unnamed-instance list is tagged before the general list.    *)
AccountCalls_UnnamedFirst(m, dryRun) ==
  applyTags(m.tagListUnnamedInstances, now + UnnamedHorizonDays,
            m.totalCost, dryRun)
    \o applyTags(m.tagListGeneral, now + GeneralHorizonDays, m.totalCost, dryRun)

(* The SetTag calls of one account's iteration: the general list first,    *)
(* then the unnamed instances; m holds the iteration's locals.             *)
AccountCalls(m, dryRun) ==
  applyTags(m.tagListGeneral, now + GeneralHorizonDays, m.totalCost, dryRun)
    \o applyTags(m.tagListUnnamedInstances, now + UnnamedHorizonDays,
                 m.totalCost, dryRun)

(* The orders in which a range over the inventory map visits the accounts. *)
AccountOrders == {<<"A", "B">>, <<"B", "A">>}

(* The concatenation of the per-account sequences in the order of a pass.  *)
RECURSIVE InOrder(_, _)
InOrder(order, perAccount) ==
  IF order = <<>> THEN <<>>
  ELSE perAccount[Head(order)] \o InOrder(Tail(order), perAccount)

(***************************************************************************)
(* PerformCleanup and ResetCloudsweeper: the selections of one account.    *)
(***************************************************************************)
lifetimeFilter == AddGeneralRule(New, LifetimeExceeded)

expiryFilter == AddGeneralRule(New, ExpiryDatePassed)

(* Mutant: the filter accepts every resource that carries the tag.         *)
deleteAtFilter_AnyTagged == AddGeneralRule(New, TaggedForCleanup)

deleteAtFilter == AddGeneralRule(New, DeleteAtPassed)

taggedFilter == AddGeneralRule(New, HasTag(DeleteTagKey))

(* The kinds in the order cleanupLifetimePassed cleans them up.            *)
CleanupKinds == <<"instance", "image", "volume", "snapshot", "bucket">>

(* The kinds in the order ResetCloudsweeper un-tags them.                  *)
ResetKinds == <<"instance", "volume", "snapshot", "image", "bucket">>

(* Mutant: the cleanup selection without any marker filter.                *)
cleanupSelection_Everything(owner, kind) == Inventory(owner, kind)

(* Mutant: the cleanup selection also takes every tagged resource.         *)
cleanupSelection_AlsoTagged(owner, kind) ==
  FilterResources(Inventory(owner, kind),
                  <<lifetimeFilter, expiryFilter, deleteAtFilter, taggedFilter>>)

(* Mutant: the cleanup selection without the DeleteAt filter.              *)
cleanupSelection_NoDeleteAt(owner, kind) ==
  FilterResources(Inventory(owner, kind), <<lifetimeFilter, expiryFilter>>)

cleanupSelection(owner, kind) ==
  FilterResources(Inventory(owner, kind),
                  <<lifetimeFilter, expiryFilter, deleteAtFilter>>)

(* Mutant: the reset selection without the tag filter.                     *)
resetSelection_Unfiltered(owner, kind) == Inventory(owner, kind)

resetSelection(owner, kind) ==
  FilterResources(Inventory(owner, kind), <<taggedFilter>>)

(* The Cleanup() calls of one account's iteration, kind after kind.        *)
RECURSIVE cleanupLifetimePassed(_, _)
cleanupLifetimePassed(owner, kinds) ==
  IF kinds = <<>> THEN <<>>
  ELSE cleanupSelection(owner, Head(kinds))
         \o cleanupLifetimePassed(owner, Tail(kinds))

(* Mutant: the iteration gives up at the first kind whose cleanup fails.    *)
cleanupAttempts_ReturnOnError(owner, kinds, failing) ==
  LET bad == {k \in DOMAIN kinds :
                SeqIds(cleanupSelection(owner, kinds[k])) \cap failing # {}}
      last == IF bad = {} THEN Len(kinds)
              ELSE CHOOSE k \in bad : \A j \in bad : k <= j
  IN cleanupLifetimePassed(owner, SubSeq(kinds, 1, last))

(* The Cleanup() calls one account's iteration issues when the provider    *)
(* rejects those on failing: the error of a kind is logged and the         *)
(* iteration goes on with the next kind.                                   *)
cleanupAttempts(owner, kinds, failing) == cleanupLifetimePassed(owner, kinds)

(* Mutant: the iteration un-tags the first kind only.                      *)
resetCalls_FirstKindOnly(owner, kinds) ==
  IF kinds = <<>> THEN <<>> ELSE resetSelection(owner, Head(kinds))

(* The RemoveTag calls of one account's iteration, kind after kind.        *)
RECURSIVE resetCalls(_, _)
resetCalls(owner, kinds) ==
  IF kinds = <<>> THEN <<>>
  ELSE resetSelection(owner, Head(kinds)) \o resetCalls(owner, Tail(kinds))

(* RemoveTag on the provider: the key is removed unless the call fails.    *)
RemoveTag(remote, id, key, failing) ==
  IF id \in failing THEN remote
  ELSE [remote EXCEPT ![id] = [k \in DOMAIN @ \ {key} |-> @[k]]]

RECURSIVE TagsAfterRemove(_, _, _)
TagsAfterRemove(ids, failing, remote) ==
  IF ids = <<>> THEN remote
  ELSE TagsAfterRemove(Tail(ids), failing,
                       RemoveTag(remote, Head(ids), DeleteTagKey, failing))

(***************************************************************************)
(* The inventory fan-out: AllResourcesPerAccount                           *)
(***************************************************************************)
NumKinds == 1

(* The regions forEachAWSRegion ranges over.                               *)
Regions == {"us-east-1", "us-west-2"}

(* The per-kind goroutines of one region task, in the order they start.    *)
KindOrder == <<"Snapshots", "Instances", "Images", "Volumes">>

FanKinds == {KindOrder[i] : i \in 1..NumKinds}

(* What the provider holds: one resource per account, region and kind.     *)
Remote(account, region, kind) == <<[owner |-> account, region |-> region, kind |-> kind]>>

(* What one listing call returns: nil with an AccessDenied error for an    *)
(* account whose role is not set up, the region's resources otherwise.     *)
getAWSResources(account, region, kind) ==
  IF account \in denied THEN <<>> ELSE Remote(account, region, kind)

(* handleAWSAccessDenied: the outcome of a listing call decides whether    *)
(* the goroutine goes on ("continue") or the process ends.                 *)
handleAWSAccessDenied(outcome) ==
  CASE outcome = "ok" -> "continue"
    [] outcome = "AccessDenied" -> "continue"
    [] outcome = "OtherAWSError" -> "Fatalln(aerr)"
    [] outcome = "NonAWSError" -> "Fatalln(err)"

(* The outcomes a listing call of the account can have.                    *)
Outcomes(account) ==
  (IF account \in denied THEN {"AccessDenied"} ELSE {"ok"})
    \cup {"OtherAWSError", "NonAWSError"}

(* new(ResourceCollection)                                                 *)
NewCollection == [k \in FanKinds |-> <<>>] @@ [Owner |-> ""]

(* sync.WaitGroup.Wait: returns once every task it counts is done.         *)
WaitReturns_AnyChild(pcs) == \E c \in DOMAIN pcs : pcs[c] = "done"

WaitReturns(pcs) == \A c \in DOMAIN pcs : pcs[c] = "done"

(* The region tasks that are inside the assignment resultMap[account] = .. *)
MapWriters == {ar \in Accounts \X Regions : regionPc[ar[1]][ar[2]] = "writing"}

NoTasks == [a \in Accounts |-> "none"]

NoRegionTasks == [a \in Accounts |-> [r \in Regions |-> "none"]]

NoKindTasks == [a \in Accounts |-> [r \in Regions |-> [k \in FanKinds |-> "none"]]]

NoBase == [a \in Accounts |-> [r \in Regions |-> [k \in FanKinds |-> <<>>]]]

NoRuns == [a \in Accounts |-> [r \in {"account"} \cup Regions |-> 0]]

(* The fan-out is not running.                                             *)
FanIdle ==
  /\ fanPc = "idle"
  /\ fanExit = ""
  /\ acctPc = NoTasks
  /\ regionPc = NoRegionTasks
  /\ kindPc = NoKindTasks
  /\ base = NoBase
  /\ resultMap = [a \in Accounts |-> NewCollection]
  /\ ran = NoRuns

(* cleanupResources is not running.                                        *)
CuIdle ==
  /\ cuResources = <<>>
  /\ cuPc = "idle"
  /\ cuTask = <<>>
  /\ cuCalls = <<>>
  /\ cuFailed = FALSE
  /\ cuResult = "none"

(* No single function is under study.                                      *)
UnitIdle ==
  /\ unitIn = <<>>
  /\ unitLog = <<>>

(***************************************************************************)
(* The state machine                                                       *)
(***************************************************************************)
MaxFailing == 1

(* The sets of resources on which the provider rejects a call of a pass.   *)
Failings(called) == {F \in SUBSET called : Cardinality(F) <= MaxFailing}

NoCalls == [a \in Accounts |-> <<>>]

NoLog == [a \in Accounts |->
            [tagListGeneral |-> <<>>, tagListUnnamedInstances |-> <<>>,
             totalCost |-> 0,
             resourcesToTag |-> [Instances |-> <<>>, Volumes |-> <<>>,
                                 Snapshots |-> <<>>, Buckets |-> <<>>,
                                 Images |-> <<>>]]]

Init ==
  /\ now = 0
  /\ fleet \in [Ids -> UNION {Profiles(id) : id \in Ids}]
  /\ \A id \in Ids : fleet[id] \in Profiles(id)
  /\ tags = [id \in Ids |-> fleet[id].tags]
  /\ alive = Ids
  /\ lastOp = "none"
  /\ dryRunFlag = FALSE
  /\ markLog = NoLog
  /\ setTagCalls = NoCalls
  /\ removeTagCalls = NoCalls
  /\ cleanupCalls = NoCalls
  /\ prevTags = tags
  /\ runs = 0
  /\ FanIdle
  /\ denied = {}
  /\ CuIdle
  /\ UnitIdle

(* One MarkForCleanup pass over the whole inventory.                       *)
MarkForCleanup ==
  /\ runs < MaxRuns
  /\ \E m \in {[a \in Accounts |-> MarkAccount(a)]}, dryRun \in BOOLEAN :
     \E calls \in {[a \in Accounts |-> AccountCalls(m[a], dryRun)]} :
     \E order \in AccountOrders :
     \E failing \in Failings(UNION {{calls[a][n].id : n \in DOMAIN calls[a]} : a \in Accounts}) :
       /\ runs' = runs + 1
       /\ lastOp' = "mark"
       /\ dryRunFlag' = dryRun
       /\ markLog' = m
       /\ setTagCalls' =
            [a \in Accounts |->
               [n \in DOMAIN calls[a] |->
                  [id |-> calls[a][n].id, key |-> calls[a][n].key,
                   value |-> calls[a][n].value,
                   overwrite |-> calls[a][n].overwrite,
                   result |-> addAWSTag(calls[a][n], tags, failing)]]]
       /\ tags' = TagsAfter(InOrder(order, calls), tags, failing, tags)
       /\ prevTags' = tags
       /\ removeTagCalls' = NoCalls
       /\ cleanupCalls' = NoCalls
       /\ UNCHANGED <<now, fleet, alive, notCtl>>

(* One PerformCleanup pass: Cleanup() on every selected resource; the      *)
(* resources whose delete call succeeds are gone.                          *)
PerformCleanup ==
  /\ runs < MaxRuns
  /\ \E selected \in {UNION {SeqIds(cleanupLifetimePassed(a, CleanupKinds)) : a \in Accounts}} :
     \E failing \in Failings(selected) :
     \E ids \in {[a \in Accounts |-> cleanupAttempts(a, CleanupKinds, failing)]} :
       /\ runs' = runs + 1
       /\ lastOp' = "perform"
       /\ cleanupCalls' =
            [a \in Accounts |->
               [n \in DOMAIN ids[a] |->
                  [id |-> ids[a][n], ok |-> ids[a][n] \notin failing]]]
       /\ alive' = alive \ (UNION {SeqIds(ids[a]) : a \in Accounts} \ failing)
       /\ prevTags' = tags
       /\ setTagCalls' = NoCalls
       /\ removeTagCalls' = NoCalls
       /\ markLog' = NoLog
       /\ UNCHANGED <<now, fleet, tags, dryRunFlag, notCtl>>

(* One ResetCloudsweeper pass.                                             *)
ResetCloudsweeper ==
  /\ runs < MaxRuns
  /\ \E ids \in {[a \in Accounts |-> resetCalls(a, ResetKinds)]} :
     \E order \in AccountOrders :
     \E failing \in Failings(UNION {SeqIds(ids[a]) : a \in Accounts}) :
       /\ runs' = runs + 1
       /\ lastOp' = "reset"
       /\ removeTagCalls' =
            [a \in Accounts |->
               [n \in DOMAIN ids[a] |->
                  [id |-> ids[a][n], key |-> DeleteTagKey,
                   ok |-> ids[a][n] \notin failing]]]
       /\ tags' = TagsAfterRemove(InOrder(order, ids), failing, tags)
       /\ prevTags' = tags
       /\ setTagCalls' = NoCalls
       /\ cleanupCalls' = NoCalls
       /\ markLog' = NoLog
       /\ UNCHANGED <<now, fleet, alive, dryRunFlag, notCtl>>

(* A day passes between two runs.                                          *)
Tick ==
  /\ now < MaxNow
  /\ now' = now + 1
  /\ lastOp' = "none"
  /\ markLog' = NoLog
  /\ setTagCalls' = NoCalls
  /\ removeTagCalls' = NoCalls
  /\ cleanupCalls' = NoCalls
  /\ prevTags' = tags
  /\ UNCHANGED <<fleet, tags, alive, dryRunFlag, runs, notCtl>>

Next ==
  \/ MarkForCleanup
  \/ PerformCleanup
  \/ ResetCloudsweeper
  \/ Tick

Spec == Init /\ [][Next]_vars

(***************************************************************************)
(* The state machine of one AllResourcesPerAccount call                    *)
(***************************************************************************)
CtlInit ==
  /\ now = 0
  /\ fleet = [id \in Ids |-> CHOOSE p \in Profiles(id) : TRUE]
  /\ tags = [id \in Ids |-> fleet[id].tags]
  /\ alive = Ids
  /\ lastOp = "none"
  /\ dryRunFlag = FALSE
  /\ markLog = NoLog
  /\ setTagCalls = NoCalls
  /\ removeTagCalls = NoCalls
  /\ cleanupCalls = NoCalls
  /\ prevTags = tags
  /\ runs = 0

InitFan ==
  /\ CtlInit
  /\ CuIdle
  /\ UnitIdle
  /\ FanIdle
  /\ denied \in SUBSET Accounts

(* The process ends: no goroutine and no memory of it is left.             *)
Exit(cause) ==
  /\ fanPc' = "exited"
  /\ fanExit' = cause
  /\ acctPc' = NoTasks
  /\ regionPc' = NoRegionTasks
  /\ kindPc' = NoKindTasks
  /\ base' = NoBase
  /\ resultMap' = [a \in Accounts |-> NewCollection]
  /\ ran' = NoRuns
  /\ UNCHANGED <<denied, notFan>>

(* AllResourcesPerAccount makes the map and getAllEC2Resources calls       *)
(* forEachAccount, which starts one goroutine per account and waits.       *)
FanCall ==
  /\ fanPc = "idle"
  /\ fanPc' = "waiting"
  /\ resultMap' = [a \in Accounts |-> NewCollection]
  /\ acctPc' = [a \in Accounts |-> "ready"]
  /\ UNCHANGED <<fanExit, denied, regionPc, kindPc, base, ran, notFan>>

(* An account goroutine makes the credentials and runs its function, which *)
(* calls forEachAWSRegion: one goroutine per region, then wait.            *)
AccountStart(a) ==
  /\ acctPc[a] = "ready"
  /\ acctPc' = [acctPc EXCEPT ![a] = "waiting"]
  /\ regionPc' = [regionPc EXCEPT ![a] = [r \in Regions |-> "ready"]]
  /\ ran' = [ran EXCEPT ![a]["account"] = @ + 1]
  /\ UNCHANGED <<fanPc, fanExit, denied, kindPc, base, resultMap, notFan>>

(* A region goroutine runs the function of AllResourcesPerAccount: it      *)
(* reads resultMap[account], sets the owner and starts the listing         *)
(* goroutines.  The map read meets no assignment in progress.              *)
RegionStart(a, r) ==
  /\ regionPc[a][r] = "ready"
  /\ MapWriters = {}
  /\ regionPc' = [regionPc EXCEPT ![a][r] = "waiting"]
  /\ resultMap' = [resultMap EXCEPT ![a].Owner = a]
  /\ kindPc' = [kindPc EXCEPT ![a][r] = [k \in FanKinds |-> "ready"]]
  /\ ran' = [ran EXCEPT ![a][r] = @ + 1]
  /\ UNCHANGED <<fanPc, fanExit, denied, acctPc, base, notFan>>

(* The map read of a region goroutine meets an assignment to the map in    *)
(* progress: the Go runtime ends the process.                              *)
ConcurrentMapRead(a, r) ==
  /\ regionPc[a][r] = "ready"
  /\ MapWriters # {}
  /\ Exit("concurrent map read and map write")

(* A listing goroutine gets the answer of the provider, passes an error to *)
(* handleAWSAccessDenied and reads the list it will append to.             *)
KindList(a, r, k) ==
  /\ kindPc[a][r][k] = "ready"
  /\ \E outcome \in Outcomes(a) :
       /\ handleAWSAccessDenied(outcome) = "continue"
       /\ kindPc' = [kindPc EXCEPT ![a][r][k] = "appending"]
       /\ base' = [base EXCEPT ![a][r][k] = resultMap[a][k]]
  /\ UNCHANGED <<fanPc, fanExit, denied, acctPc, regionPc, resultMap, ran, notFan>>

(* The listing call fails with an error that is not AccessDenied.          *)
KindListFatal(a, r, k) ==
  /\ kindPc[a][r][k] = "ready"
  /\ \E outcome \in Outcomes(a) :
       /\ handleAWSAccessDenied(outcome) # "continue"
       /\ Exit(handleAWSAccessDenied(outcome))

(* The listing goroutine stores the appended list and is done.             *)
KindAppend(a, r, k) ==
  /\ kindPc[a][r][k] = "appending"
  /\ resultMap' = [resultMap EXCEPT ![a][k] = base[a][r][k] \o getAWSResources(a, r, k)]
  /\ kindPc' = [kindPc EXCEPT ![a][r][k] = "done"]
  /\ base' = [base EXCEPT ![a][r][k] = <<>>]
  /\ UNCHANGED <<fanPc, fanExit, denied, acctPc, regionPc, ran, notFan>>

(* The region goroutine's wait is over; it starts the assignment           *)
(* resultMap[account] = result while no other assignment is in progress.   *)
RegionWriteBegin(a, r) ==
  /\ regionPc[a][r] = "waiting"
  /\ WaitReturns(kindPc[a][r])
  /\ MapWriters = {}
  /\ regionPc' = [regionPc EXCEPT ![a][r] = "writing"]
  /\ UNCHANGED <<fanPc, fanExit, denied, acctPc, kindPc, base, resultMap, ran, notFan>>

(* The assignment starts while another one is in progress: the Go runtime  *)
(* ends the process.                                                       *)
ConcurrentMapWrites(a, r) ==
  /\ regionPc[a][r] = "waiting"
  /\ WaitReturns(kindPc[a][r])
  /\ MapWriters # {}
  /\ Exit("concurrent map writes")

(* The assignment is over (the map holds the same pointer as before) and   *)
(* the region goroutine is done.                                           *)
RegionWriteEnd(a, r) ==
  /\ regionPc[a][r] = "writing"
  /\ regionPc' = [regionPc EXCEPT ![a][r] = "done"]
  /\ UNCHANGED <<fanPc, fanExit, denied, acctPc, kindPc, base, resultMap, ran, notFan>>

(* forEachAWSRegion returns to the account goroutine, which is done.       *)
AccountDone(a) ==
  /\ acctPc[a] = "waiting"
  /\ WaitReturns(regionPc[a])
  /\ acctPc' = [acctPc EXCEPT ![a] = "done"]
  /\ UNCHANGED <<fanPc, fanExit, denied, regionPc, kindPc, base, resultMap, ran, notFan>>

(* forEachAccount returns and AllResourcesPerAccount returns the map.      *)
FanReturn ==
  /\ fanPc = "waiting"
  /\ WaitReturns(acctPc)
  /\ fanPc' = "returned"
  /\ UNCHANGED <<fanExit, denied, acctPc, regionPc, kindPc, base, resultMap, ran, notFan>>

NextFan ==
  \/ FanCall
  \/ \E a \in Accounts : AccountStart(a)
  \/ \E a \in Accounts, r \in Regions : RegionStart(a, r)
  \/ \E a \in Accounts, r \in Regions : ConcurrentMapRead(a, r)
  \/ \E a \in Accounts, r \in Regions, k \in FanKinds : KindList(a, r, k)
  \/ \E a \in Accounts, r \in Regions, k \in FanKinds : KindListFatal(a, r, k)
  \/ \E a \in Accounts, r \in Regions, k \in FanKinds : KindAppend(a, r, k)
  \/ \E a \in Accounts, r \in Regions : RegionWriteBegin(a, r)
  \/ \E a \in Accounts, r \in Regions : ConcurrentMapWrites(a, r)
  \/ \E a \in Accounts, r \in Regions : RegionWriteEnd(a, r)
  \/ \E a \in Accounts : AccountDone(a)
  \/ FanReturn

SpecFan == InitFan /\ [][NextFan]_vars



(***************************************************************************)
(* The state machine of one cleanupResources call                          *)
(***************************************************************************)
MaxResources == 3

(* The lists cleanupResources can be handed: up to MaxResources resources. *)
ResourceLists == {[i \in 1..n |-> i] : n \in 0..MaxResources}

InitCleanup ==
  /\ CtlInit
  /\ FanIdle
  /\ denied = {}
  /\ UnitIdle
  /\ cuResources \in ResourceLists
  /\ cuPc = "idle"
  /\ cuTask = <<>>
  /\ cuCalls = <<>>
  /\ cuFailed = FALSE
  /\ cuResult = "none"

(* Mutant: cleanupResources reporting success whatever failed holds.       *)
cleanupResult_AlwaysNil(failed) == "nil"

(* What cleanupResources returns after its wait.                           *)
cleanupResult(failed) == IF failed THEN "error" ELSE "nil"

(* cleanupResources sets failed, counts the list into its wait group and   *)
(* starts one goroutine per element.                                       *)
CuCall ==
  /\ cuPc = "idle"
  /\ cuPc' = "waiting"
  /\ cuFailed' = FALSE
  /\ cuTask' = [i \in DOMAIN cuResources |-> "ready"]
  /\ cuCalls' = [i \in DOMAIN cuResources |-> <<>>]
  /\ UNCHANGED <<cuResources, cuResult, notCu>>

(* A goroutine calls Cleanup() on its element; the provider deletes the    *)
(* resource or answers with an error.                                      *)
CuCleanup(i) ==
  /\ cuTask[i] = "ready"
  /\ \E outcome \in {"nil", "err"} :
       /\ cuCalls' = [cuCalls EXCEPT ![i] = Append(@, outcome)]
       /\ cuTask' = [cuTask EXCEPT ![i] = outcome]
  /\ UNCHANGED <<cuResources, cuPc, cuFailed, cuResult, notCu>>

(* err != nil: the goroutine logs, sets failed and is done.                *)
CuFailed(i) ==
  /\ cuTask[i] = "err"
  /\ cuFailed' = TRUE
  /\ cuTask' = [cuTask EXCEPT ![i] = "done"]
  /\ UNCHANGED <<cuResources, cuPc, cuCalls, cuResult, notCu>>

(* err == nil: the goroutine is done.                                      *)
CuDone(i) ==
  /\ cuTask[i] = "nil"
  /\ cuTask' = [cuTask EXCEPT ![i] = "done"]
  /\ UNCHANGED <<cuResources, cuPc, cuCalls, cuFailed, cuResult, notCu>>

(* wg.Wait() is over: cleanupResources returns.                            *)
CuReturn ==
  /\ cuPc = "waiting"
  /\ WaitReturns(cuTask)
  /\ cuPc' = "returned"
  /\ cuResult' = cleanupResult(cuFailed)
  /\ UNCHANGED <<cuResources, cuTask, cuCalls, cuFailed, notCu>>

NextCleanup ==
  \/ CuCall
  \/ \E i \in DOMAIN cuTask : CuCleanup(i)
  \/ \E i \in DOMAIN cuTask : CuFailed(i)
  \/ \E i \in DOMAIN cuTask : CuDone(i)
  \/ CuReturn

SpecCleanup == InitCleanup /\ [][NextCleanup]_vars


(***************************************************************************)
(* SetTag calls on one resource object                                     *)
(***************************************************************************)
MaxSetTagCalls == 2

(* The keys and values the calls are made with.                            *)
SetTagKeys == {DeleteTagKey, "team"}

SetTagValues == {1, 2}

(* A listing has built one resource object; unitIn is the object, with the *)
(* tag map convertAWSTags gave it.                                         *)
InitSetTag ==
  /\ CtlInit
  /\ FanIdle
  /\ denied = {}
  /\ CuIdle
  /\ unitIn \in {[id |-> id, tags |-> fleet[id].tags] : id \in Ids}
  /\ unitLog = <<>>

(* r.SetTag(key, value, overwrite) on the object: addAWSTag looks the key  *)
(* up in r.Tags() and, unless it refuses, sends CreateTags, which the      *)
(* provider applies or rejects.                                            *)
SetTag ==
  /\ Len(unitLog) < MaxSetTagCalls
  /\ \E key \in SetTagKeys, value \in SetTagValues, overwrite \in BOOLEAN,
        failing \in {{}, {unitIn.id}} :
       LET call == [id |-> unitIn.id, key |-> key, value |-> value,
                    overwrite |-> overwrite]
           cached == [i \in {unitIn.id} |-> unitIn.tags]
           result == addAWSTag(call, cached, failing)
       IN /\ unitLog' = Append(unitLog,
                           [key |-> key, value |-> value, overwrite |-> overwrite,
                            result |-> result,
                            createTags |-> result # "AlreadyTagged"])
          /\ tags' = TagsAfter(<<call>>, cached, failing, tags)
  /\ UNCHANGED <<now, fleet, alive, lastOp, dryRunFlag, markLog, setTagCalls,
                 removeTagCalls, cleanupCalls, prevTags, runs, unitIn, notUnit>>

NextSetTag == SetTag

SpecSetTag == InitSetTag /\ [][NextSetTag]_vars

(***************************************************************************)
(* A MarkForCleanup pass that ends between two SetTag calls                *)
(***************************************************************************)
(* The calls of the pass that returned before the process ended: the first *)
(* done calls of the accounts in the order of the pass.                    *)
Interrupted(order, calls, done) ==
  [a \in Accounts |->
     IF a = order[1]
       THEN SubSeq(calls[a], 1, IF done < Len(calls[a]) THEN done ELSE Len(calls[a]))
       ELSE SubSeq(calls[a], 1,
                   IF done > Len(calls[order[1]]) THEN done - Len(calls[order[1]]) ELSE 0)]

(* A pass with dryRun=false whose process ends after done SetTag calls,    *)
(* before the last one; every call made succeeds.                           *)
MarkCrash ==
  /\ runs < MaxRuns
  /\ \E m \in {[a \in Accounts |-> MarkAccount(a)]} :
     \E calls \in {[a \in Accounts |-> AccountCalls(m[a], FALSE)]} :
     \E order \in AccountOrders :
     \E done \in 0..(Len(InOrder(order, calls)) - 1) :
       /\ runs' = runs + 1
       /\ lastOp' = "crash"
       /\ dryRunFlag' = FALSE
       /\ markLog' = m
       /\ setTagCalls' =
            [a \in Accounts |->
               [n \in DOMAIN Interrupted(order, calls, done)[a] |->
                  [id |-> calls[a][n].id, key |-> calls[a][n].key,
                   value |-> calls[a][n].value,
                   overwrite |-> calls[a][n].overwrite,
                   result |-> "ok"]]]
       /\ tags' = TagsAfter(InOrder(order, Interrupted(order, calls, done)),
                            tags, {}, tags)
       /\ prevTags' = tags
       /\ removeTagCalls' = NoCalls
       /\ cleanupCalls' = NoCalls
       /\ UNCHANGED <<now, fleet, alive, notCtl>>

NextCrash ==
  \/ MarkCrash
  \/ MarkForCleanup
  \/ Tick

SpecCrash == Init /\ [][NextCrash]_vars

(***************************************************************************)
(* awsImage.MakePrivate on one image object                                *)
(***************************************************************************)
MaxMakePrivateCalls == 4

(* What client.ModifyImageAttribute can return.                            *)
ModifyImageAttributeErrors == {"nil", "AuthFailure", "RequestLimitExceeded"}

(* Mutant: the cached flag is cleared before the provider answers.         *)
MakePrivate_ClearsFirst(i, err) ==
  IF ~i.public THEN [image |-> i, request |-> "", result |-> "nil"]
  ELSE [image |-> [i EXCEPT !.public = FALSE], request |-> i.id, result |-> err]

(* MakePrivate on the image object i when the provider call, if made,      *)
(* returns err: the object afterwards, the ImageId of the request ("" when *)
(* none is sent) and the returned error.                                   *)
MakePrivate(i, err) ==
  IF ~i.public THEN [image |-> i, request |-> "", result |-> "nil"]
  ELSE IF err # "nil" THEN [image |-> i, request |-> i.id, result |-> err]
  ELSE [image |-> [i EXCEPT !.public = FALSE], request |-> i.id, result |-> "nil"]

InitMakePrivate ==
  /\ CtlInit
  /\ FanIdle
  /\ denied = {}
  /\ CuIdle
  /\ unitIn \in [id : {"m1", "m2", "m3"}, public : BOOLEAN]
  /\ unitLog = <<>>

(* One call of MakePrivate on the object; unitIn is the object.            *)
CallMakePrivate ==
  /\ Len(unitLog) < MaxMakePrivateCalls
  /\ \E err \in ModifyImageAttributeErrors :
       /\ ~unitIn.public => err = "nil"
       /\ unitIn' = MakePrivate(unitIn, err).image
       /\ unitLog' = Append(unitLog,
            [public |-> unitIn.public,
             request |-> MakePrivate(unitIn, err).request,
             result |-> MakePrivate(unitIn, err).result])
  /\ UNCHANGED <<ctlVars, notUnit>>

NextMakePrivate == CallMakePrivate

SpecMakePrivate == InitMakePrivate /\ [][NextMakePrivate]_vars

(***************************************************************************)
(* MarkForCleanup: the threshold lookups and the applyTags calls of a pass *)
(***************************************************************************)
(* The keys of the getThreshold calls of one iteration of the account      *)
(* loop, in the order of the calls.                                        *)
LookupOrder ==
  <<"clean-untagged-older-than-days", "clean-instances-older-than-days",
    "clean-untagged-older-than-days", "clean-unattached-older-than-days",
    "clean-snapshots-older-than-days", "clean-bucket-not-modified-days",
    "clean-bucket-older-than-days", "clean-images-older-than-days",
    "clean-keep-n-component-images">>

(* The orders in which the range over allResources can visit the accounts  *)
(* of a manager with no, one or two accounts.                              *)
AccountLists == {<<>>, <<"A">>, <<"B">>} \cup AccountOrders

(* The iteration of the account loop the pass is in.                       *)
Iteration(log) ==
  Cardinality({n \in DOMAIN log : log[n].event = "applyTags"}) + 1

(* The getThreshold calls that have returned in that iteration.            *)
Lookups(log) ==
  Cardinality({n \in DOMAIN log :
                 log[n].iteration = Iteration(log) /\ log[n].event = "getThreshold"})

(* The pass has returned or the process has exited.                        *)
Ended(log) == log # <<>> /\ log[Len(log)].event \in {"Fatalf", "return"}

InitThresholds ==
  /\ CtlInit
  /\ FanIdle
  /\ denied = {}
  /\ CuIdle
  /\ unitIn \in [thresholds : {[k \in K |-> Thresholds[k]] : K \in SUBSET DOMAIN Thresholds},
                 accounts : AccountLists]
  /\ unitLog = <<>>

(* getThreshold finds the key.                                             *)
GetThreshold ==
  /\ ~Ended(unitLog)
  /\ Iteration(unitLog) <= Len(unitIn.accounts)
  /\ Lookups(unitLog) < Len(LookupOrder)
  /\ LookupOrder[Lookups(unitLog) + 1] \in DOMAIN unitIn.thresholds
  /\ unitLog' = Append(unitLog,
       [iteration |-> Iteration(unitLog), event |-> "getThreshold",
        key |-> LookupOrder[Lookups(unitLog) + 1]])
  /\ UNCHANGED <<ctlVars, unitIn, notUnit>>

(* Mutant: getThreshold returns its default when the key is not found.     *)
GetThresholdFatal_Continues ==
  /\ ~Ended(unitLog)
  /\ Iteration(unitLog) <= Len(unitIn.accounts)
  /\ Lookups(unitLog) < Len(LookupOrder)
  /\ LookupOrder[Lookups(unitLog) + 1] \notin DOMAIN unitIn.thresholds
  /\ unitLog' = Append(unitLog,
       [iteration |-> Iteration(unitLog), event |-> "getThreshold",
        key |-> LookupOrder[Lookups(unitLog) + 1]])
  /\ UNCHANGED <<ctlVars, unitIn, notUnit>>

(* getThreshold does not find the key: log.Fatalf ends the process.        *)
GetThresholdFatal ==
  /\ ~Ended(unitLog)
  /\ Iteration(unitLog) <= Len(unitIn.accounts)
  /\ Lookups(unitLog) < Len(LookupOrder)
  /\ LookupOrder[Lookups(unitLog) + 1] \notin DOMAIN unitIn.thresholds
  /\ unitLog' = Append(unitLog,
       [iteration |-> Iteration(unitLog), event |-> "Fatalf",
        key |-> LookupOrder[Lookups(unitLog) + 1]])
  /\ UNCHANGED <<ctlVars, unitIn, notUnit>>

(* The two applyTags calls that end the iteration: the SetTag calls of the *)
(* account, if any, are made here.                                         *)
ApplyTags ==
  /\ ~Ended(unitLog)
  /\ Iteration(unitLog) <= Len(unitIn.accounts)
  /\ Lookups(unitLog) = Len(LookupOrder)
  /\ unitLog' = Append(unitLog,
       [iteration |-> Iteration(unitLog), event |-> "applyTags", key |-> ""])
  /\ UNCHANGED <<ctlVars, unitIn, notUnit>>

(* The account loop is over: MarkForCleanup returns allResourcesToTag.     *)
MarkReturn ==
  /\ ~Ended(unitLog)
  /\ Iteration(unitLog) > Len(unitIn.accounts)
  /\ unitLog' = Append(unitLog,
       [iteration |-> Iteration(unitLog), event |-> "return", key |-> ""])
  /\ UNCHANGED <<ctlVars, unitIn, notUnit>>

NextThresholds ==
  \/ GetThreshold
  \/ GetThresholdFatal
  \/ ApplyTags
  \/ MarkReturn

SpecThresholds == InitThresholds /\ [][NextThresholds]_vars

(***************************************************************************)
(* getAllButNLatestComponents on a list of images                          *)
(***************************************************************************)
MaxKeep == 4

MaxStamp == 3

(* The images of the listing, in listing order.                            *)
ImageOrder == <<"m1", "m2", "m3", "m4">>

(* An image is named <component>-<timestamp> or has another name.          *)
ImageProfiles ==
  {[Profile(0, 1, NoTags) EXCEPT !.follows = TRUE, !.component = c, !.stamp = t] :
     c \in {"web", "db"}, t \in 1..MaxStamp}
  \cup {Profile(0, 1, NoTags)}

InitRetention ==
  /\ now = 0
  /\ fleet \in [{ImageOrder[n] : n \in DOMAIN ImageOrder} -> ImageProfiles]
  /\ tags = [id \in DOMAIN fleet |-> fleet[id].tags]
  /\ alive = DOMAIN fleet
  /\ lastOp = "none"
  /\ dryRunFlag = FALSE
  /\ markLog = NoLog
  /\ setTagCalls = NoCalls
  /\ removeTagCalls = NoCalls
  /\ cleanupCalls = NoCalls
  /\ prevTags = tags
  /\ runs = 0
  /\ FanIdle
  /\ denied = {}
  /\ CuIdle
  /\ unitIn \in {SubSeq(ImageOrder, 1, n) : n \in 0..Len(ImageOrder)}
  /\ unitLog = <<>>

(* One call getAllButNLatestComponents(images, componentsToKeep).          *)
Retain ==
  /\ unitLog = <<>>
  /\ \E componentsToKeep \in 1..MaxKeep :
       unitLog' = <<[componentsToKeep |-> componentsToKeep,
                     result |-> getAllButNLatestComponents(unitIn, componentsToKeep)]>>
  /\ UNCHANGED <<ctlVars, unitIn, notUnit>>

NextRetention == Retain

SpecRetention == InitRetention /\ [][NextRetention]_vars

(***************************************************************************)
(* ImagesPerAccount: the listing of the images of one account and region   *)
(***************************************************************************)
MaxAmis == 3

(* The CreationDate strings of DescribeImages, by their parts: RFC 3339    *)
(* wants the date, a "T", the time and a zone.                             *)
CreationDates ==
  [day : 1..MaxStamp, sep : {"T", " "}, zone : {"Z", ""}]

(* time.Parse(time.RFC3339, value): the time and the error.                *)
timeParse(value) ==
  IF value.sep = "T" /\ value.zone = "Z"
    THEN [ti |-> value.day, err |-> "nil"]
    ELSE [ti |-> 0, err |-> "ParseError"]

(* The answers of client.DescribeImages: an error or a list of AMIs.       *)
DescribeImagesAnswers ==
  {[err |-> "AccessDenied", Images |-> <<>>]}
  \cup {[err |-> "nil", Images |-> amis] :
          amis \in UNION {[1..n -> CreationDates] : n \in 0..MaxAmis}}

(* getAWSImages: the images built from the answer and the error returned.  *)
(* An image is the index of its AMI with the parsed creation time.         *)
getAWSImages(answer) ==
  IF answer.err # "nil" THEN [result |-> <<>>, err |-> answer.err]
  ELSE IF \E n \in DOMAIN answer.Images : timeParse(answer.Images[n]).err # "nil"
    THEN [result |-> <<>>, err |-> "ParseError"]
    ELSE [result |-> [n \in DOMAIN answer.Images |->
                        [id |-> n, creationTime |-> timeParse(answer.Images[n]).ti]],
          err |-> "nil"]

(* err.(awserr.Error): what handleAWSAccessDenied makes of the error.      *)
ErrorOutcome(err) ==
  CASE err = "nil" -> "ok"
    [] err = "AccessDenied" -> "AccessDenied"
    [] err = "ParseError" -> "NonAWSError"

InitImages ==
  /\ CtlInit
  /\ FanIdle
  /\ denied = {}
  /\ CuIdle
  /\ unitIn \in DescribeImagesAnswers
  /\ unitLog = <<>>

(* The function ImagesPerAccount hands to getAllEC2Resources, run once.    *)
ImagesPerAccount ==
  /\ unitLog = <<>>
  /\ unitLog' = <<[images |-> getAWSImages(unitIn).result,
                   err |-> getAWSImages(unitIn).err,
                   appended |-> IF getAWSImages(unitIn).err = "nil"
                                  THEN getAWSImages(unitIn).result ELSE <<>>,
                   exit |-> IF getAWSImages(unitIn).err = "nil" THEN "continue"
                            ELSE handleAWSAccessDenied(
                                   ErrorOutcome(getAWSImages(unitIn).err))]>>
  /\ UNCHANGED <<ctlVars, unitIn, notUnit>>

NextImages == ImagesPerAccount

SpecImages == InitImages /\ [][NextImages]_vars

(***************************************************************************)
(* getAllButNLatestComponents with any configured number of images to keep *)
(***************************************************************************)
(* The values of clean-keep-n-component-images findConfigInt returns:      *)
(* strconv.Atoi accepts every decimal integer, zero and negatives too.     *)
ConfiguredKeep == (0 - 1)..MaxKeep

(* The index findThreshold reads in the sorted list of len dates (Go       *)
(* slices start at index 0).                                               *)
thresholdIndex(len, componentsToKeep) ==
  (IF componentsToKeep > len THEN len ELSE componentsToKeep) - 1

(* One call getAllButNLatestComponents(images, componentsToKeep): the run  *)
(* panics at the first image whose threshold index is out of range.        *)
RetainConfigured ==
  /\ unitLog = <<>>
  /\ \E componentsToKeep \in ConfiguredKeep :
     \E indices \in {[n \in DOMAIN unitIn |->
                        thresholdIndex(
                          Len(componentDates(unitIn, ParseFormat(unitIn[n])[1])),
                          componentsToKeep)]} :
     \E inRange \in {\A n \in DOMAIN unitIn :
                        /\ indices[n] >= 0
                        /\ indices[n] < Len(componentDates(unitIn, ParseFormat(unitIn[n])[1]))} :
       unitLog' = <<[componentsToKeep |-> componentsToKeep,
                     indices |-> indices,
                     outcome |-> IF inRange THEN "returned"
                                 ELSE "panic: index out of range",
                     result |-> IF inRange
                                  THEN getAllButNLatestComponents(unitIn, componentsToKeep)
                                  ELSE <<>>]>>
  /\ UNCHANGED <<ctlVars, unitIn, notUnit>>

NextConfigured == RetainConfigured

SpecConfigured == InitRetention /\ [][NextConfigured]_vars

(***************************************************************************)
(* findConfig: the lookup of one option by the configuration loader        *)
(***************************************************************************)
optionalDefault == "<optional>"

(* Three entries of configMapping, one for each kind of default: a value,  *)
(* the empty string and the optional marker.                               *)
configMapping ==
  "csp" :> [confKey |-> "CS_CSP", defaultValue |-> "aws"]
  @@ "billing-account" :> [confKey |-> "CS_BILLING_ACCOUNT", defaultValue |-> ""]
  @@ "billing-sort-tag" :> [confKey |-> "CS_BILLING_SORT_TAG",
                            defaultValue |-> optionalDefault]

(* The names findConfig is called with: the options and a name that is not *)
(* an option.                                                              *)
LookupNames == DOMAIN configMapping \cup {"no-such-option"}

Returned(val) == [outcome |-> "returned", value |-> val]

Fatalf(message) == [outcome |-> "fatal", value |-> message]

(* Mutant: the config file is consulted before the flag.                   *)
findConfig_FileFirst(name, flags, config) ==
  IF name \notin DOMAIN configMapping THEN Fatalf("Unknown config option")
  ELSE IF /\ configMapping[name].confKey \in DOMAIN config
          /\ config[configMapping[name].confKey] # ""
         THEN Returned(config[configMapping[name].confKey])
  ELSE IF flags[name] # "" THEN Returned(flags[name])
  ELSE IF configMapping[name].defaultValue = optionalDefault THEN Returned("")
  ELSE IF configMapping[name].defaultValue = "" THEN Fatalf("No value specified")
  ELSE Returned(configMapping[name].defaultValue)

(* findConfig(name) with maybeNoValExit: flags holds the value of the flag *)
(* of every option, config the entries of the config file.                 *)
findConfig(name, flags, config) ==
  IF name \notin DOMAIN configMapping THEN Fatalf("Unknown config option")
  ELSE IF flags[name] # "" THEN Returned(flags[name])
  ELSE IF /\ configMapping[name].confKey \in DOMAIN config
          /\ config[configMapping[name].confKey] # ""
         THEN Returned(config[configMapping[name].confKey])
  ELSE IF configMapping[name].defaultValue = optionalDefault THEN Returned("")
  ELSE IF configMapping[name].defaultValue = "" THEN Fatalf("No value specified")
  ELSE Returned(configMapping[name].defaultValue)

(* The command line gives a flag a value or leaves it empty; the config    *)
(* file has an entry for a key, empty or not, or has none.                 *)
InitFindConfig ==
  /\ CtlInit
  /\ FanIdle
  /\ denied = {}
  /\ CuIdle
  /\ \E flags \in [DOMAIN configMapping -> {"", "from-flag"}] :
     \E keys \in SUBSET {configMapping[n].confKey : n \in DOMAIN configMapping} :
     \E config \in [keys -> {"", "from-file"}] :
       unitIn = [flags |-> flags, config |-> config]
  /\ unitLog = <<>>

(* One call of findConfig by the loader; a fatal call ends the process.    *)
FindConfig ==
  /\ \A n \in DOMAIN unitLog : unitLog[n].outcome # "fatal"
  /\ \E name \in LookupNames :
       /\ \A n \in DOMAIN unitLog : unitLog[n].name # name
       /\ \E r \in {findConfig(name, unitIn.flags, unitIn.config)} :
            unitLog' = Append(unitLog, [name |-> name, outcome |-> r.outcome,
                                        value |-> r.value])
  /\ UNCHANGED <<ctlVars, unitIn, notUnit>>

NextFindConfig == FindConfig

SpecFindConfig == InitFindConfig /\ [][NextFindConfig]_vars

(***************************************************************************)
(* Properties of the cleanup controller                                    *)
(***************************************************************************)
CalledIds(calls, a) == {calls[a][n].id : n \in DOMAIN calls[a]}

CallIdSeq(calls, a) == [n \in DOMAIN calls[a] |-> calls[a][n].id]

NoDuplicates(list) ==
  \A m, n \in DOMAIN list : m # n => list[m] # list[n]

(* A marker of the resource has passed under the tag maps t: age >=        *)
(* Lifetime, now >= ExpiryDate or now >= DeleteAt.                         *)
LifetimePassed(t, id) ==
  /\ LifetimeTagKey \in DOMAIN t[id]
  /\ now - fleet[id].created >= t[id][LifetimeTagKey]

ExpiryPassed(t, id) ==
  /\ ExpiryTagKey \in DOMAIN t[id]
  /\ now >= t[id][ExpiryTagKey]

DeleteAtElapsed(t, id) ==
  /\ DeleteTagKey \in DOMAIN t[id]
  /\ now >= t[id][DeleteTagKey]

MarkerPassed(t, id) ==
  LifetimePassed(t, id) \/ ExpiryPassed(t, id) \/ DeleteAtElapsed(t, id)

(* C1: a MarkForCleanup pass with dryRun=true issues no SetTag call and    *)
(* leaves the tag map of every resource of every account as it was,        *)
(* whatever the total cost of the account.                                 *)
C1_DryRunWritesNoTags ==
  (lastOp = "mark" /\ dryRunFlag) =>
     /\ \A a \in Accounts : setTagCalls[a] = <<>>
     /\ tags = prevTags

C1_Witness ==
  /\ lastOp = "mark"
  /\ dryRunFlag
  /\ \E a \in Accounts :
       /\ markLog[a].totalCost >= totalCostThreshold
       /\ markLog[a].tagListGeneral # <<>>
       /\ markLog[a].tagListUnnamedInstances # <<>>

(* C2: with dryRun=false the cost gate is all-or-nothing per account:      *)
(* below the threshold no resource of the account is tagged; at or above   *)
(* it SetTag(DeleteTagKey, ., overwrite=true) is issued for every resource *)
(* of the general list and of the unnamed-instance list.                   *)
C2_CostGateAllOrNothing ==
  (lastOp = "mark" /\ ~dryRunFlag) =>
    \A a \in Accounts :
      IF markLog[a].totalCost < totalCostThreshold
      THEN /\ setTagCalls[a] = <<>>
           /\ \A id \in Ids : OwnerOf(id) = a => tags[id] = prevTags[id]
      ELSE /\ CallIdSeq(setTagCalls, a) =
                markLog[a].tagListGeneral \o markLog[a].tagListUnnamedInstances
           /\ \A n \in DOMAIN setTagCalls[a] :
                /\ setTagCalls[a][n].key = DeleteTagKey
                /\ setTagCalls[a][n].overwrite

C2_Witness ==
  /\ lastOp = "mark"
  /\ ~dryRunFlag
  /\ \E a \in Accounts :
       /\ markLog[a].totalCost = totalCostThreshold
       /\ markLog[a].tagListGeneral # <<>>
       /\ markLog[a].tagListUnnamedInstances # <<>>
       /\ setTagCalls[a] # <<>>
  /\ \E a \in Accounts :
       /\ markLog[a].totalCost < totalCostThreshold
       /\ markLog[a].tagListGeneral # <<>>
       /\ markLog[a].tagListUnnamedInstances # <<>>

(* C3: PerformCleanup calls Cleanup() only on resources one of whose three *)
(* markers has passed; a resource without marker, or whose markers have    *)
(* not elapsed, is never deleted by any step.                              *)
C3_NoCleanupWithoutPassedMarker ==
  [][/\ lastOp' = "perform" =>
          \A a \in Accounts : \A id \in CalledIds(cleanupCalls', a) :
             MarkerPassed(tags, id)
     /\ \A id \in alive \ alive' : MarkerPassed(tags, id)]_vars

C3_Witness ==
  /\ lastOp = "perform"
  /\ \E a \in Accounts : cleanupCalls[a] # <<>>
  /\ \E id \in alive :
       /\ DeleteTagKey \in DOMAIN tags[id]
       /\ now < tags[id][DeleteTagKey]
       /\ id \notin CalledIds(cleanupCalls, OwnerOf(id))
  /\ \E id \in alive :
       /\ DOMAIN tags[id] \cap {DeleteTagKey, LifetimeTagKey, ExpiryTagKey} = {}
       /\ id \notin CalledIds(cleanupCalls, OwnerOf(id))


(* C4: PerformCleanup attempts Cleanup() on every resource of the          *)
(* inventory for which a single one of the three markers has passed, also  *)
(* when the other two are absent or have not elapsed.                      *)
C4_CleanupOnAnyPassedMarker ==
  lastOp = "perform" =>
    \A id \in Ids :
      (id \in alive \cup CalledIds(cleanupCalls, OwnerOf(id))
         /\ MarkerPassed(prevTags, id))
      => id \in CalledIds(cleanupCalls, OwnerOf(id))

OnlyMarker(id, key) ==
  DOMAIN prevTags[id] \cap {DeleteTagKey, LifetimeTagKey, ExpiryTagKey} = {key}

C4_Witness ==
  /\ lastOp = "perform"
  /\ \E id \in Ids :
       /\ id \in CalledIds(cleanupCalls, OwnerOf(id))
       /\ OnlyMarker(id, DeleteTagKey)
  /\ \E id \in Ids :
       /\ id \in CalledIds(cleanupCalls, OwnerOf(id))
       /\ OnlyMarker(id, LifetimeTagKey)

(* The filter holding the rules of all slots of the filters of a call.     *)
RECURSIVE MergedFilter(_)
MergedFilter(filters) ==
  IF filters = <<>> THEN New
  ELSE LET f == Head(filters)
           g == MergedFilter(Tail(filters))
       IN [slot \in DOMAIN New |-> f[slot] \o g[slot]]

(* The call sites of MarkForCleanup and PerformCleanup that hand several   *)
(* filters to one call.                                                    *)
MultiFilterCalls(owner) ==
  {[result |-> generalInstances(owner), list |-> Inventory(owner, "instance"),
    filters |-> <<instanceFilter, untaggedFilter>>],
   [result |-> selectedVolumes(owner), list |-> Inventory(owner, "volume"),
    filters |-> <<volumeFilter, untaggedFilter>>],
   [result |-> selectedSnapshots(owner), list |-> Inventory(owner, "snapshot"),
    filters |-> <<snapshotFilter, untaggedFilter>>],
   [result |-> selectedBuckets(owner), list |-> Inventory(owner, "bucket"),
    filters |-> <<bucketFilter, untaggedFilter>>]}
  \cup {[result |-> cleanupSelection(owner, CleanupKinds[k]),
         list |-> Inventory(owner, CleanupKinds[k]),
         filters |-> <<lifetimeFilter, expiryFilter, deleteAtFilter>>] :
          k \in DOMAIN CleanupKinds}

C6_NoIdSelectedTwice ==
  lastOp = "mark" =>
    \A a \in Accounts :
      /\ NoDuplicates(markLog[a].tagListUnnamedInstances
                        \o markLog[a].tagListGeneral)
      /\ NoDuplicates(markLog[a].resourcesToTag.Instances)
      /\ NoDuplicates(markLog[a].resourcesToTag.Images)
      /\ NoDuplicates(CallIdSeq(setTagCalls, a))

(***************************************************************************)
(* Properties of the inventory fan-out                                     *)
(***************************************************************************)
(* How often the resource occurs in the list.                              *)
Occurrences(list, res) == Cardinality({n \in DOMAIN list : list[n] = res})

(* The collection of the account lists every resource the provider holds   *)
(* for it, in every region and of every kind, exactly once.                *)
FullInventory(a) ==
  \A k \in FanKinds :
    /\ Len(resultMap[a][k]) = Cardinality(Regions)
    /\ \A r \in Regions : Occurrences(resultMap[a][k], Remote(a, r, k)[1]) = 1

EmptyInventory(a) == \A k \in FanKinds : resultMap[a][k] = <<>>

(* C7: when every listing call of account A is denied and those of account *)
(* B succeed, the map AllResourcesPerAccount returns holds B's full        *)
(* inventory and empty lists for A.                                        *)
C7_AccountIsolation ==
  (fanPc = "returned" /\ denied = {"A"}) =>
     (FullInventory("B") /\ EmptyInventory("A"))

(* C8: whatever the listing calls answer (success, AccessDenied, another   *)
(* provider error, a non-provider error), the run is never ended early.    *)
C8_RunNeverEndsEarly == fanPc # "exited"

C10_MergingComplete ==
  fanPc = "returned" => \A a \in Accounts \ denied : FullInventory(a)

(* The listing goroutines of the account that have read the list of the    *)
(* kind and have not yet stored the appended list.                         *)
Appending(a, k) == {r \in Regions : kindPc[a][r][k] = "appending"}

(* C11: in every reachable state of the inventory fan-out each field of an *)
(* account's collection has at most one task between its read and its      *)
(* write of the field; two region tasks of one account never update the    *)
(* same field at the same time.                                            *)
C11_NoConcurrentWriters ==
  \A a \in Accounts, k \in FanKinds : Cardinality(Appending(a, k)) <= 1

(***************************************************************************)
(* Properties of cleanupResources                                          *)
(***************************************************************************)
(* C12: cleanupResources calls Cleanup() exactly once on every element of  *)
(* its list, whatever the other calls answer, returns only after all the   *)
(* goroutines are done, and returns nil iff every Cleanup() succeeded.     *)
C12_CleanupResources ==
  /\ \A i \in DOMAIN cuCalls : Len(cuCalls[i]) <= 1
  /\ cuPc = "returned" =>
       /\ DOMAIN cuTask = DOMAIN cuResources
       /\ \A i \in DOMAIN cuResources :
            cuTask[i] = "done" /\ Len(cuCalls[i]) = 1
       /\ cuResult = "nil" <=>
            \A i \in DOMAIN cuResources : cuCalls[i] = <<"nil">>
       /\ cuResult \in {"nil", "error"}

(* A call on three resources has returned an error after one Cleanup()     *)
(* failed and the two others succeeded.                                    *)
C12_Witness ==
  /\ cuPc = "returned"
  /\ Len(cuResources) = 3
  /\ cuResult = "error"
  /\ Cardinality({i \in DOMAIN cuCalls : cuCalls[i] = <<"err">>}) = 1
  /\ Cardinality({i \in DOMAIN cuCalls : cuCalls[i] = <<"nil">>}) = 2

(***************************************************************************)
(* Properties of the passes of the controller                              *)
(***************************************************************************)
(* The place of the kind of the resource in the order of the cleanup.      *)
KindRank(id) == CHOOSE k \in DOMAIN CleanupKinds : CleanupKinds[k] = KindOf(id)

(* The resource was there when the last pass took its inventory.           *)
WasListed(id) == id \in alive \/ id \in CalledIds(cleanupCalls, OwnerOf(id))

(* C13: in PerformCleanup a failed Cleanup() of one kind in one account    *)
(* does not block the pass: every resource with a passed marker of the     *)
(* later kinds of that account and of every other account is still handed  *)
(* to Cleanup(), the kinds of an account in the order instances, images,   *)
(* volumes, snapshots, buckets.                                            *)
C13_FailedKindDoesNotBlock ==
  lastOp = "perform" =>
    \A a \in Accounts :
      /\ \A m, n \in DOMAIN cleanupCalls[a] :
           m < n => KindRank(cleanupCalls[a][m].id) <= KindRank(cleanupCalls[a][n].id)
      /\ \A n \in DOMAIN cleanupCalls[a] :
           ~cleanupCalls[a][n].ok =>
             \A id \in Ids :
               (/\ WasListed(id)
                /\ MarkerPassed(prevTags, id)
                /\ \/ OwnerOf(id) # a
                   \/ KindRank(id) > KindRank(cleanupCalls[a][n].id))
               => id \in CalledIds(cleanupCalls, OwnerOf(id))

(* A Cleanup() of one account failed, a later kind of the same account and *)
(* a resource of the other account were cleaned up all the same.           *)
C13_Witness ==
  /\ lastOp = "perform"
  /\ \E a \in Accounts : \E n \in DOMAIN cleanupCalls[a] :
       /\ ~cleanupCalls[a][n].ok
       /\ \E m \in DOMAIN cleanupCalls[a] :
            /\ KindRank(cleanupCalls[a][m].id) > KindRank(cleanupCalls[a][n].id)
            /\ cleanupCalls[a][m].ok
            /\ cleanupCalls[a][m].id \notin alive
       /\ \E b \in Accounts \ {a} : \E m \in DOMAIN cleanupCalls[b] :
            cleanupCalls[b][m].ok /\ cleanupCalls[b][m].id \notin alive

(* Every RemoveTag call of the last pass succeeded.                        *)
AllRemoved(calls) ==
  \A a \in Accounts : \A n \in DOMAIN calls[a] : calls[a][n].ok

(* C14: after a ResetCloudsweeper run in which every RemoveTag succeeds no  *)
(* resource carries the deletion-marker tag, and a second run right after  *)
(* it issues no RemoveTag call and leaves the state as it is.              *)
C14_ResetIdempotent ==
  [][/\ (lastOp' = "reset" /\ AllRemoved(removeTagCalls')) =>
          \A id \in alive' : DeleteTagKey \notin DOMAIN tags'[id]
     /\ (lastOp = "reset" /\ AllRemoved(removeTagCalls) /\ lastOp' = "reset") =>
          /\ \A a \in Accounts : removeTagCalls'[a] = <<>>
          /\ tags' = tags
          /\ alive' = alive
          /\ fleet' = fleet]_vars

(* Two ResetCloudsweeper runs on the same day: the first removed the        *)
(* marker of a resource, the second issued no call.                        *)
C14_Witness ==
  /\ lastOp = "reset"
  /\ runs = 2
  /\ now = 0
  /\ \A a \in Accounts : removeTagCalls[a] = <<>>
  /\ \E id \in alive :
       /\ DeleteTagKey \in DOMAIN fleet[id].tags
       /\ DeleteTagKey \notin DOMAIN tags[id]

(* The derived lifecycle state of a resource under the live set l and the  *)
(* tag maps t.                                                             *)
Lifecycle(l, t, id) ==
  IF id \notin l THEN "Deleted"
  ELSE IF DeleteTagKey \in DOMAIN t[id] THEN "Marked"
  ELSE "Untouched"

(* C15 as stated: every resource follows Untouched -> Marked -> {Deleted |  *)
(* Untouched}: Marked only through the mark phase writing the DeleteAt tag, *)
(* Deleted only from Marked and only by PerformCleanup, back to Untouched   *)
(* only through reset, Deleted terminal.                                   *)
C15_Original ==
  [][\A id \in Ids :
       LET from == Lifecycle(alive, tags, id)
           to == Lifecycle(alive', tags', id)
       IN /\ (from = "Untouched" /\ to = "Marked") => lastOp' = "mark"
          /\ (from # "Deleted" /\ to = "Deleted") =>
               (from = "Marked" /\ lastOp' = "perform")
          /\ (from = "Marked" /\ to = "Untouched") => lastOp' = "reset"
          /\ from = "Deleted" => to = "Deleted"]_vars

(* C15 amended: as stated, except that PerformCleanup deletes a resource   *)
(* from Marked or from Untouched, whenever one of its three markers        *)
(* (Lifetime, Expiry, DeleteAt) has passed.                                *)
C15_Amended ==
  [][\A id \in Ids :
       LET from == Lifecycle(alive, tags, id)
           to == Lifecycle(alive', tags', id)
       IN /\ (from = "Untouched" /\ to = "Marked") =>
               (lastOp' = "mark" /\ id \in CalledIds(setTagCalls', OwnerOf(id)))
          /\ (from # "Deleted" /\ to = "Deleted") =>
               /\ lastOp' = "perform"
               /\ MarkerPassed(tags, id)
               /\ from = "Untouched" =>
                    (LifetimePassed(tags, id) \/ ExpiryPassed(tags, id))
          /\ (from = "Marked" /\ to = "Untouched") =>
               (lastOp' = "reset" /\ id \in CalledIds(removeTagCalls', OwnerOf(id)))
          /\ from = "Deleted" => to = "Deleted"]_vars

(* PerformCleanup has deleted one resource that carried the DeleteAt tag   *)
(* and one that never carried it.                                          *)
C15_Witness ==
  /\ lastOp = "perform"
  /\ \E id \in Ids \ alive :
       /\ id \in CalledIds(cleanupCalls, OwnerOf(id))
       /\ DeleteTagKey \in DOMAIN tags[id]
  /\ \E id \in Ids \ alive :
       /\ id \in CalledIds(cleanupCalls, OwnerOf(id))
       /\ DeleteTagKey \notin DOMAIN tags[id]
       /\ DeleteTagKey \notin DOMAIN fleet[id].tags

(***************************************************************************)
(* Properties of SetTag                                                    *)
(***************************************************************************)
(* C16: for a key that is not on the resource, SetTag(r,k,v,false)          *)
(* followed on the same object by SetTag(r,k,v2,false) makes the second    *)
(* call fail with AlreadyTagged, sends no CreateTags for v2 and leaves v    *)
(* as the value of k.                                                      *)
C16_SecondSetTagRefused ==
  \A n \in DOMAIN unitLog :
    (/\ n + 1 = Len(unitLog)
     /\ unitLog[n].key \notin DOMAIN unitIn.tags
     /\ unitLog[n].key = unitLog[n + 1].key
     /\ ~unitLog[n].overwrite
     /\ ~unitLog[n + 1].overwrite
     /\ unitLog[n].result = "ok")
    => /\ unitLog[n + 1].result = "AlreadyTagged"
       /\ ~unitLog[n + 1].createTags
       /\ tags[unitIn.id][unitLog[n].key] = unitLog[n].value

(***************************************************************************)
(* Properties of the component-image retention                             *)
(***************************************************************************)
(* The images of the list whose name gives the component.                  *)
Group(images, c) == {id \in SeqIds(images) : ParseFormat(id)[1] = c}

Components(images) == {ParseFormat(id)[1] : id \in SeqIds(images)}

DistinctStamps(group) ==
  \A x, y \in group : x # y => ParseFormat(x)[2] # ParseFormat(y)[2]

(* The number of images of the group that are newer than the image.        *)
Newer(group, id) ==
  Cardinality({x \in group : ParseFormat(x)[2] > ParseFormat(id)[2]})

(* The images of the group that are not among its n newest.                *)
AllButNLatest(group, n) == {id \in group : Newer(group, id) >= n}

(* The timestamp of the n-th newest image of a group of at least n images. *)
NthNewestStamp(group, n) ==
  CHOOSE t \in {ParseFormat(x)[2] : x \in group} :
    /\ Cardinality({x \in group : ParseFormat(x)[2] > t}) < n
    /\ Cardinality({x \in group : ParseFormat(x)[2] >= t}) >= n

(* C17: for every component group with distinct timestamps,                *)
(* getAllButNLatestComponents(images, N), N >= 1, returns exactly the       *)
(* images of the group that are not among its N newest, and no image of a  *)
(* group of N or fewer images.                                             *)
C17_AllButNLatest ==
  \A n \in DOMAIN unitLog :
    \A c \in Components(unitIn) :
      DistinctStamps(Group(unitIn, c)) =>
        /\ SeqIds(unitLog[n].result) \cap Group(unitIn, c) =
             AllButNLatest(Group(unitIn, c), unitLog[n].componentsToKeep)
        /\ Cardinality(Group(unitIn, c)) <= unitLog[n].componentsToKeep =>
             SeqIds(unitLog[n].result) \cap Group(unitIn, c) = {}
        /\ NoDuplicates(unitLog[n].result)

(* Three images of one component with distinct timestamps and N = 2: the   *)
(* call returned exactly the oldest.                                       *)
C17_Witness ==
  /\ unitLog # <<>>
  /\ unitLog[1].componentsToKeep = 2
  /\ Len(unitIn) = 3
  /\ Cardinality(Components(unitIn)) = 1
  /\ \A id \in SeqIds(unitIn) : fleet[id].follows
  /\ DistinctStamps(SeqIds(unitIn))
  /\ Len(unitLog[1].result) = 1
  /\ Newer(SeqIds(unitIn), unitLog[1].result[1]) = 2

(* C18 as stated: in a component group of at least N images an image is a  *)
(* retention-cleanup candidate iff its timestamp is at or before that of   *)
(* the N-th newest image of the group.                                     *)
C18_Original ==
  \A n \in DOMAIN unitLog :
    \A c \in Components(unitIn) :
      Cardinality(Group(unitIn, c)) >= unitLog[n].componentsToKeep =>
        \A id \in Group(unitIn, c) :
          id \in SeqIds(unitLog[n].result) <=>
            ParseFormat(id)[2] <=
              NthNewestStamp(Group(unitIn, c), unitLog[n].componentsToKeep)

(* C18 amended: ... iff its timestamp is strictly before that of the N-th  *)
(* newest image of the group.                                              *)
C18_Amended ==
  \A n \in DOMAIN unitLog :
    \A c \in Components(unitIn) :
      Cardinality(Group(unitIn, c)) >= unitLog[n].componentsToKeep =>
        \A id \in Group(unitIn, c) :
          id \in SeqIds(unitLog[n].result) <=>
            ParseFormat(id)[2] <
              NthNewestStamp(Group(unitIn, c), unitLog[n].componentsToKeep)

(* A group of more than N images: an older image was returned, the N-th    *)
(* newest was not.                                                         *)
C18_Witness ==
  /\ unitLog # <<>>
  /\ \E c \in Components(unitIn) :
       LET g == Group(unitIn, c)
           k == unitLog[1].componentsToKeep
       IN /\ c # ""
          /\ Cardinality(g) > k
          /\ \E id \in g : id \in SeqIds(unitLog[1].result)
          /\ \E id \in g :
               /\ ParseFormat(id)[2] = NthNewestStamp(g, k)
               /\ id \notin SeqIds(unitLog[1].result)

(***************************************************************************)
(* Properties of the image listing                                         *)
(***************************************************************************)
(* C19: an image whose creation timestamp does not parse is skipped, the   *)
(* other images of the same listing are still returned, and the run        *)
(* continues.                                                              *)
C19_ParseFailureSkipsOneImage ==
  \A n \in DOMAIN unitLog :
    unitIn.err = "nil" =>
      /\ unitLog[n].exit = "continue"
      /\ {unitLog[n].appended[i].id : i \in DOMAIN unitLog[n].appended} =
           {i \in DOMAIN unitIn.Images : timeParse(unitIn.Images[i]).err = "nil"}

(***************************************************************************)
(* Properties of repeated marking                                          *)
(***************************************************************************)
AllTagged(calls) ==
  \A a \in Accounts : \A n \in DOMAIN calls[a] : calls[a][n].result = "ok"

WouldTag(log) ==
  UNION {IF log[a].totalCost >= totalCostThreshold
           THEN SeqIds(log[a].tagListGeneral) \cup SeqIds(log[a].tagListUnnamedInstances)
           ELSE {} : a \in Accounts}

(* C21: when a MarkForCleanup pass is interrupted after tagging part of    *)
(* the selected resources and MarkForCleanup then runs to completion on    *)
(* the unchanged fleet, every resource the uninterrupted pass would have   *)
(* tagged carries the DeleteAt tag.                                        *)
C21_RerunConverges ==
  [][(lastOp = "crash" /\ lastOp' = "mark" /\ ~dryRunFlag'
        /\ AllTagged(setTagCalls')) =>
       \A id \in WouldTag(markLog) : DeleteTagKey \in DOMAIN tags'[id]]_vars

(***************************************************************************)
(* Properties of MakePrivate                                               *)
(***************************************************************************)
(* The cached public flag after the n-th logged call.                      *)
PublicAfter(n) == IF n = Len(unitLog) THEN unitIn.public ELSE unitLog[n + 1].public

(* C22: MakePrivate on an image that is already private sends no provider  *)
(* request and returns nil; on a public image it sends the request for the *)
(* image, clears the cached flag iff the request succeeded, and returns    *)
(* the error with the flag still set when it failed, so that the next call *)
(* sends the request again.                                                *)
C22_MakePrivate ==
  \A n \in DOMAIN unitLog :
    IF ~unitLog[n].public
      THEN /\ unitLog[n].request = ""
           /\ unitLog[n].result = "nil"
           /\ ~PublicAfter(n)
      ELSE /\ unitLog[n].request = unitIn.id
           /\ PublicAfter(n) <=> unitLog[n].result # "nil"
           /\ (unitLog[n].result # "nil" /\ n < Len(unitLog)) =>
                unitLog[n + 1].request = unitIn.id

(* A failed call, a retry that succeeds, then a call that does nothing.    *)
C22_Witness ==
  /\ Len(unitLog) >= 3
  /\ unitLog[1].public /\ unitLog[1].result # "nil"
  /\ unitLog[2].request # "" /\ unitLog[2].result = "nil"
  /\ unitLog[3].request = "" /\ unitLog[3].result = "nil"
  /\ ~unitIn.public

OnlyDeleteAt(t, id) ==
  /\ DeleteTagKey \in DOMAIN t[id]
  /\ DOMAIN t[id] \cap {LifetimeTagKey, ExpiryTagKey} = {}

C25_FailureDoesNotAbort ==
  (lastOp = "mark" /\ ~dryRunFlag) =>
    \A a \in Accounts :
      markLog[a].totalCost >= totalCostThreshold =>
        /\ Len(setTagCalls[a]) =
             Len(markLog[a].tagListGeneral) + Len(markLog[a].tagListUnnamedInstances)
        /\ \A n \in DOMAIN setTagCalls[a] :
             /\ setTagCalls[a][n].id =
                  (markLog[a].tagListGeneral \o markLog[a].tagListUnnamedInstances)[n]
             /\ IF setTagCalls[a][n].result = "ok"
                  THEN /\ DeleteTagKey \in DOMAIN tags[setTagCalls[a][n].id]
                       /\ \E m \in DOMAIN setTagCalls[a] :
                            /\ setTagCalls[a][m].id = setTagCalls[a][n].id
                            /\ tags[setTagCalls[a][n].id][DeleteTagKey] =
                                 setTagCalls[a][m].value
                  ELSE tags[setTagCalls[a][n].id] = prevTags[setTagCalls[a][n].id]

(* A call of the general list failed; a later call of that list and a call *)
(* of the unnamed-instance list succeeded and wrote their tags, and the    *)
(* other account was tagged in the same pass.                              *)
C25_Witness ==
  /\ lastOp = "mark"
  /\ ~dryRunFlag
  /\ \A b \in Accounts : \E n \in DOMAIN setTagCalls[b] : setTagCalls[b][n].result = "ok"
  /\ \E a \in Accounts :
       \E n, m, u \in DOMAIN setTagCalls[a] :
         /\ n < m
         /\ m <= Len(markLog[a].tagListGeneral)
         /\ u > Len(markLog[a].tagListGeneral)
         /\ setTagCalls[a][n].result = "ProviderError"
         /\ setTagCalls[a][m].result = "ok"
         /\ setTagCalls[a][u].result = "ok"
         /\ DeleteTagKey \in DOMAIN tags[setTagCalls[a][m].id]
         /\ DeleteTagKey \in DOMAIN tags[setTagCalls[a][u].id]
         /\ DeleteTagKey \notin DOMAIN tags[setTagCalls[a][n].id]

(***************************************************************************)
(* Properties of the threshold lookups                                     *)
(***************************************************************************)
KeyMissing == DOMAIN unitIn.thresholds # DOMAIN Thresholds

Events(event) == {n \in DOMAIN unitLog : unitLog[n].event = event}

(* C26 as stated: when one of the eight keys is missing the pass aborts    *)
(* (it never returns) before any applyTags call, and every threshold       *)
(* lookup of an account's iteration precedes the first applyTags call of   *)
(* the pass.                                                               *)
C26_Original ==
  /\ KeyMissing => (Events("applyTags") = {} /\ Events("return") = {})
  /\ \A n \in Events("getThreshold") : \A m \in Events("applyTags") : n < m

(* C26 amended: when one of the eight keys is missing no applyTags call is *)
(* made, and if the inventory holds an account the pass never returns: it  *)
(* ends with Fatalf in the first iteration. Every iteration looks up all   *)
(* eight keys before its own applyTags calls.                              *)
C26_Amended ==
  /\ KeyMissing =>
       /\ Events("applyTags") = {}
       /\ Events("return") # {} => unitIn.accounts = <<>>
       /\ \A n \in Events("Fatalf") :
            unitLog[n].iteration = 1 /\ unitLog[n].key \notin DOMAIN unitIn.thresholds
  /\ \A m \in Events("applyTags") :
       /\ {unitLog[n].key : n \in {k \in Events("getThreshold") :
             unitLog[k].iteration = unitLog[m].iteration}} = DOMAIN Thresholds
       /\ \A n \in Events("getThreshold") :
            unitLog[n].iteration = unitLog[m].iteration => n < m

(* A pass over two accounts that ended with Fatalf at the last lookup of   *)
(* the first iteration, the only key that is missing.                      *)
C26_Witness ==
  /\ Len(unitIn.accounts) = 2
  /\ DOMAIN Thresholds \ DOMAIN unitIn.thresholds = {"clean-keep-n-component-images"}
  /\ Ended(unitLog)
  /\ unitLog[Len(unitLog)].event = "Fatalf"
  /\ Len(unitLog) = Len(LookupOrder)

(***************************************************************************)
(* Properties of the per-account cost gate                                 *)
(***************************************************************************)
(* C27: the total cost of an account sums only the selected resources of   *)
(* that account and alone decides whether the account is tagged; a pass    *)
(* that follows a pass which changed only resources of other accounts      *)
(* selects and sums for the account what the first did.                    *)
C27_GatePerAccount ==
  [][(lastOp' = "mark" /\ runs' = runs + 1) =>
       \A a \in Accounts :
         /\ \A id \in SeqIds(markLog'[a].tagListGeneral)
                        \cup SeqIds(markLog'[a].tagListUnnamedInstances) :
              OwnerOf(id) = a
         /\ markLog'[a].totalCost =
              SumCost(markLog'[a].tagListUnnamedInstances)
                + SumCost(markLog'[a].tagListGeneral)
         /\ setTagCalls'[a] # <<>> <=>
              /\ ~dryRunFlag'
              /\ markLog'[a].totalCost >= totalCostThreshold
              /\ markLog'[a].tagListGeneral \o markLog'[a].tagListUnnamedInstances # <<>>
         /\ (lastOp = "mark" /\ \A id \in Ids : OwnerOf(id) = a => tags[id] = prevTags[id])
              => markLog'[a] = markLog[a]]_vars

(* The second of two passes: an earlier pass tagged the other account;     *)
(* this account is untouched, selects resources, stays below the gate on   *)
(* its own and is not tagged.                                              *)
C27_Witness ==
  /\ lastOp = "mark"
  /\ runs = MaxRuns
  /\ ~dryRunFlag
  /\ \E a, b \in Accounts :
       /\ \E id \in Ids :
            /\ OwnerOf(id) = b
            /\ DeleteTagKey \in DOMAIN tags[id] \ DOMAIN fleet[id].tags
       /\ \A id \in Ids : OwnerOf(id) = a => tags[id] = fleet[id].tags
       /\ setTagCalls[a] = <<>>
       /\ markLog[a].tagListGeneral # <<>>
       /\ markLog[a].totalCost > 0
       /\ markLog[a].totalCost < totalCostThreshold

(***************************************************************************)
(* Frame properties of the mark and the reset pass                         *)
(***************************************************************************)
(* The tag maps agree on every key but the given one.                      *)
SameBut(key, t, u) ==
  /\ DOMAIN t \ {key} = DOMAIN u \ {key}
  /\ \A k \in DOMAIN t \ {key} : t[k] = u[k]

(* C28: a MarkForCleanup pass calls neither Cleanup() nor RemoveTag and    *)
(* deletes nothing; every SetTag it issues has the key DeleteTagKey and is *)
(* on a resource of one of the two tag lists of its account; no other tag  *)
(* key of any resource changes, and a resource outside the lists keeps its *)
(* tag map.                                                                *)
C28_MarkWritesOnlyDeleteAt ==
  [][(lastOp' = "mark" /\ runs' = runs + 1) =>
       /\ cleanupCalls' = NoCalls
       /\ removeTagCalls' = NoCalls
       /\ alive' = alive
       /\ \A a \in Accounts : \A n \in DOMAIN setTagCalls'[a] :
            /\ setTagCalls'[a][n].key = DeleteTagKey
            /\ setTagCalls'[a][n].id \in
                 SeqIds(markLog'[a].tagListGeneral)
                   \cup SeqIds(markLog'[a].tagListUnnamedInstances)
       /\ \A id \in Ids :
            /\ SameBut(DeleteTagKey, tags[id], tags'[id])
            /\ id \notin SeqIds(markLog'[OwnerOf(id)].tagListGeneral)
                           \cup SeqIds(markLog'[OwnerOf(id)].tagListUnnamedInstances)
                 => tags'[id] = tags[id]]_vars

(* A pass that tagged a resource carrying another tag and left alone a     *)
(* resource that has a Lifetime or ExpiryDate marker.                      *)
C28_Witness ==
  /\ lastOp = "mark"
  /\ \E id \in Ids :
       /\ DeleteTagKey \in DOMAIN tags[id] \ DOMAIN prevTags[id]
       /\ DOMAIN prevTags[id] # {}
       /\ SameBut(DeleteTagKey, prevTags[id], tags[id])
  /\ \E id \in Ids :
       /\ DOMAIN tags[id] \cap {LifetimeTagKey, ExpiryTagKey} # {}
       /\ tags[id] = prevTags[id]
       /\ id \notin CalledIds(setTagCalls, OwnerOf(id))

(* C29: a ResetCloudsweeper pass calls neither Cleanup() nor SetTag and    *)
(* deletes nothing; it calls RemoveTag with DeleteTagKey on exactly the    *)
(* resources that carry that tag, of every kind and account, also when one *)
(* of the calls fails; a call that succeeds removes that key, a call that  *)
(* fails changes nothing, and no other tag of any resource changes.        *)
C29_ResetRemovesOnlyDeleteAt ==
  [][(lastOp' = "reset" /\ runs' = runs + 1) =>
       /\ cleanupCalls' = NoCalls
       /\ setTagCalls' = NoCalls
       /\ alive' = alive
       /\ \A a \in Accounts : \A n \in DOMAIN removeTagCalls'[a] :
            /\ removeTagCalls'[a][n].key = DeleteTagKey
            /\ DeleteTagKey \in DOMAIN tags[removeTagCalls'[a][n].id]
            /\ IF removeTagCalls'[a][n].ok
                 THEN DeleteTagKey \notin DOMAIN tags'[removeTagCalls'[a][n].id]
                 ELSE tags'[removeTagCalls'[a][n].id] = tags[removeTagCalls'[a][n].id]
       /\ \A id \in Ids :
            /\ SameBut(DeleteTagKey, tags[id], tags'[id])
            /\ (id \in alive /\ DeleteTagKey \in DOMAIN tags[id]) =>
                 id \in CalledIds(removeTagCalls', OwnerOf(id))]_vars

(* A pass in which a RemoveTag failed and a later one of the same account  *)
(* and one of the other account succeeded; a resource lost the marker and  *)
(* kept its other tag.                                                     *)
C29_Witness ==
  /\ lastOp = "reset"
  /\ \E a \in Accounts : \E n, m \in DOMAIN removeTagCalls[a] :
       /\ n < m
       /\ ~removeTagCalls[a][n].ok
       /\ removeTagCalls[a][m].ok
       /\ DeleteTagKey \in DOMAIN tags[removeTagCalls[a][n].id]
       /\ DeleteTagKey \notin DOMAIN tags[removeTagCalls[a][m].id]
       /\ \E b \in Accounts \ {a} : \E k \in DOMAIN removeTagCalls[b] :
            removeTagCalls[b][k].ok
  /\ \E id \in Ids :
       /\ DeleteTagKey \in DOMAIN prevTags[id] \ DOMAIN tags[id]
       /\ DOMAIN tags[id] # {}

(***************************************************************************)
(* Properties of the retention when timestamps repeat                      *)
(***************************************************************************)
(* C30: for every list of images and every N >= 1, no image that has fewer *)
(* than N newer images in its component group is returned, at least        *)
(* min(N, size) images of every group are not returned, and what is        *)
(* returned of a group is what the call returns on the images of that      *)
(* group alone.                                                            *)
C30_KeepsNewestN ==
  \A n \in DOMAIN unitLog :
    \A c \in Components(unitIn) :
      LET g == Group(unitIn, c)
          k == unitLog[n].componentsToKeep
          r == SeqIds(unitLog[n].result) \cap g
      IN /\ \A id \in g : Newer(g, id) < k => id \notin r
         /\ Cardinality(g \ r) >= (IF k < Cardinality(g) THEN k ELSE Cardinality(g))
         /\ r = SeqIds(getAllButNLatestComponents(
                         SelectSeq(unitIn, LAMBDA id : id \in g), k))

(* Two components in the list; the images of one share a timestamp, are    *)
(* more than N and are all kept, and an image of the other is returned.    *)
C30_Witness ==
  /\ unitLog # <<>>
  /\ \E c, d \in Components(unitIn) :
       /\ c # d
       /\ ~DistinctStamps(Group(unitIn, c))
       /\ Cardinality(Group(unitIn, c)) > unitLog[1].componentsToKeep
       /\ SeqIds(unitLog[1].result) \cap Group(unitIn, c) = {}
       /\ SeqIds(unitLog[1].result) \cap Group(unitIn, d) # {}

(***************************************************************************)
(* Properties of the configured number of images to keep                   *)
(***************************************************************************)
(* C31: for every value of clean-keep-n-component-images the loader        *)
(* accepts and every non-empty image list, the index minimumIndex-1 is a   *)
(* valid index of the date list of every group, and the call returns.      *)
C31_ThresholdIndexInRange ==
  \A n \in DOMAIN unitLog :
    unitIn # <<>> =>
      /\ unitLog[n].outcome = "returned"
      /\ \A i \in DOMAIN unitIn :
           /\ unitLog[n].indices[i] >= 0
           /\ unitLog[n].indices[i] <
                Cardinality(Group(unitIn, ParseFormat(unitIn[i])[1]))

(***************************************************************************)
(* Properties of the map MarkForCleanup returns                            *)
(***************************************************************************)
(* The ids of a returned collection, over its five lists.                  *)
ReturnedIds(collection) ==
  SeqIds(collection.Instances) \cup SeqIds(collection.Volumes)
    \cup SeqIds(collection.Snapshots) \cup SeqIds(collection.Buckets)
    \cup SeqIds(collection.Images)

(* C32: the map MarkForCleanup returns has an entry for every account, and *)
(* the entry of an account lists exactly the resources of its general and  *)
(* its unnamed tag list, all of that account; the entry is the one the     *)
(* inventory determines, whether the pass is a dry run, stays below the    *)
(* cost gate or tags.                                                      *)
C32_ReturnedSelection ==
  [][(lastOp' = "mark" /\ runs' = runs + 1) =>
       /\ DOMAIN markLog' = Accounts
       /\ \A a \in Accounts :
            /\ ReturnedIds(markLog'[a].resourcesToTag)
                 = SeqIds(markLog'[a].tagListGeneral)
                     \cup SeqIds(markLog'[a].tagListUnnamedInstances)
            /\ \A id \in ReturnedIds(markLog'[a].resourcesToTag) : OwnerOf(id) = a
            /\ CalledIds(setTagCalls', a) \subseteq ReturnedIds(markLog'[a].resourcesToTag)
            /\ markLog'[a].resourcesToTag = MarkAccount(a).resourcesToTag]_vars

(* A pass that is not a dry run: one account selects resources, stays      *)
(* below the cost gate and gets no tag, the other is tagged; both entries  *)
(* list the selection.                                                     *)
C32_Witness ==
  /\ lastOp = "mark"
  /\ ~dryRunFlag
  /\ \E a, b \in Accounts :
       /\ setTagCalls[a] = <<>>
       /\ markLog[a].totalCost < totalCostThreshold
       /\ ReturnedIds(markLog[a].resourcesToTag) # {}
       /\ setTagCalls[b] # <<>>
       /\ CalledIds(setTagCalls, b) = ReturnedIds(markLog[b].resourcesToTag)

(***************************************************************************)
(* Properties of the configuration lookup                                  *)
(***************************************************************************)
(* The option has a non-empty entry in the config file.                    *)
InFile(name) ==
  /\ configMapping[name].confKey \in DOMAIN unitIn.config
  /\ unitIn.config[configMapping[name].confKey] # ""

(* C33: findConfig(name) aborts for a name that is not an option; for an   *)
(* option it returns the flag value when that is not empty, otherwise the  *)
(* config-file value when the file has a non-empty one, otherwise the      *)
(* default; it returns the empty string when that default is the optional  *)
(* marker and aborts when a default that is not the marker is empty.       *)
C33_LookupPrecedence ==
  \A n \in DOMAIN unitLog :
    LET call == unitLog[n]
        name == call.name
    IN IF name \notin DOMAIN configMapping THEN call.outcome = "fatal"
       ELSE /\ unitIn.flags[name] # "" =>
                 /\ call.outcome = "returned"
                 /\ call.value = unitIn.flags[name]
            /\ (unitIn.flags[name] = "" /\ InFile(name)) =>
                 /\ call.outcome = "returned"
                 /\ call.value = unitIn.config[configMapping[name].confKey]
            /\ (unitIn.flags[name] = "" /\ ~InFile(name)) =>
                 /\ configMapping[name].defaultValue = optionalDefault =>
                      call.outcome = "returned" /\ call.value = ""
                 /\ configMapping[name].defaultValue = "" =>
                      call.outcome = "fatal"
                 /\ configMapping[name].defaultValue \notin {"", optionalDefault} =>
                      /\ call.outcome = "returned"
                      /\ call.value = configMapping[name].defaultValue
            /\ call.outcome = "returned" =>
                 call.value = "" <=>
                   /\ configMapping[name].defaultValue = optionalDefault
                   /\ unitIn.flags[name] = ""
                   /\ ~InFile(name)

(* The loader has looked up three options: one given by flag and by file   *)
(* and answered with the flag value, one given by file only, one optional  *)
(* and given nowhere, the last with an entry in the file that is empty.    *)
C33_Witness ==
  /\ Len(unitLog) = 3
  /\ \A n \in DOMAIN unitLog : unitLog[n].outcome = "returned"
  /\ \E k, l, m \in DOMAIN unitLog :
       /\ unitIn.flags[unitLog[k].name] # ""
       /\ InFile(unitLog[k].name)
       /\ unitLog[k].value = "from-flag"
       /\ unitIn.flags[unitLog[l].name] = ""
       /\ unitLog[l].value = "from-file"
       /\ configMapping[unitLog[m].name].confKey \in DOMAIN unitIn.config
       /\ unitLog[m].value = ""

====
